---- MODULE Spec2Model ----
(***************************************************************************)
(* A model of the chess rules engine and move chooser of                   *)
(* chess-game-with-mcts: ChessBoard and ChessMCTS.search of src/main.py    *)
(* and the second ChessBoard of src/models/chess_board_broken.py.          *)
(*                                                                         *)
(* Squares are (row, col) with row 0 Black's back rank, as in the code.    *)
(* Python's None is the string "none" (for a marker or a piece kind), the  *)
(* record Empty (for a grid cell) and the empty tuple NoSquare (for        *)
(* en_passant_target).                                                     *)
(***************************************************************************)
EXTENDS Integers, Sequences, FiniteSets, TLC

WHITE == "white"
BLACK == "black"
Colors == {WHITE, BLACK}
None == "none"
NoSquare == << >>
Rows == 0..7

Empty == [type |-> "none", color |-> "none", has_moved |-> FALSE]
Piece(t, c, m) == [type |-> t, color |-> c, has_moved |-> m]
Opponent(c) == IF c = WHITE THEN BLACK ELSE WHITE
Range(s) == {s[k] : k \in DOMAIN s}
Abs(x) == IF x < 0 THEN -x ELSE x
\* the element of a set of one: The({e(x) : x \in {v}}) is e(v), with v
\* computed once
The(S) == CHOOSE x \in S : TRUE

back_row == <<"R", "N", "B", "Q", "K", "B", "N", "R">>

setup_initial_position ==
    [r \in Rows |-> [c \in Rows |->
        IF r = 0 THEN Piece(back_row[c + 1], BLACK, FALSE)
        ELSE IF r = 1 THEN Piece("P", BLACK, FALSE)
        ELSE IF r = 6 THEN Piece("P", WHITE, FALSE)
        ELSE IF r = 7 THEN Piece(back_row[c + 1], WHITE, FALSE)
        ELSE Empty]]

NewBoard ==
    [board |-> setup_initial_position,
     current_player |-> WHITE,
     move_history |-> << >>,
     kings |-> [white |-> <<7, 4>>, black |-> <<0, 4>>],
     en_passant_target |-> NoSquare,
     castling_rights |-> [white |-> [kingside |-> TRUE, queenside |-> TRUE],
                          black |-> [kingside |-> TRUE, queenside |-> TRUE]],
     halfmove_clock |-> 0,
     fullmove_number |-> 1]

is_valid_position(row, col) == 0 <= row /\ row < 8 /\ 0 <= col /\ col < 8

(***************************************************************************)
(* Move generation of src/main.py.  Every generator returns the moves in   *)
(* the order the code appends them.                                        *)
(***************************************************************************)
RookDirs == << <<0, 1>>, <<0, -1>>, <<1, 0>>, <<-1, 0>> >>
BishopDirs == << <<1, 1>>, <<1, -1>>, <<-1, 1>>, <<-1, -1>> >>
KnightJumps == << <<2, 1>>, <<2, -1>>, <<-2, 1>>, <<-2, -1>>,
                  <<1, 2>>, <<1, -2>>, <<-1, 2>>, <<-1, -2>> >>
KingDirs == << <<0, 1>>, <<0, -1>>, <<1, 0>>, <<-1, 0>>,
               <<1, 1>>, <<1, -1>>, <<-1, 1>>, <<-1, -1>> >>
PromotionKinds == <<"Q", "R", "B", "N">>

\* the loop `for i in range(1, 8)` of one direction, from distance i on: it
\* breaks at the edge and at the first piece, which it takes if it is the
\* opponent's
RECURSIVE SlideReach(_, _, _, _, _, _)
SlideReach(b, row, col, dr, dc, i) ==
    LET new_row == row + dr * i
        new_col == col + dc * i
    IN IF i > 7 \/ ~is_valid_position(new_row, new_col) THEN << >>
       ELSE IF b.board[new_row][new_col] = Empty
       THEN << <<new_row, new_col>> >> \o SlideReach(b, row, col, dr, dc, i + 1)
       ELSE IF b.board[new_row][new_col].color /= b.board[row][col].color
       THEN << <<new_row, new_col>> >>
       ELSE << >>

\* the loop over the directions, from the k-th on
RECURSIVE SlideFrom(_, _, _, _, _)
SlideFrom(b, row, col, dirs, k) ==
    IF k > Len(dirs) THEN << >>
    ELSE SlideReach(b, row, col, dirs[k][1], dirs[k][2], 1)
         \o SlideFrom(b, row, col, dirs, k + 1)

SlideMoves(b, row, col, dirs) == SlideFrom(b, row, col, dirs, 1)

StepMoves(b, row, col, jumps) ==
    LET ok(d) ==
            /\ is_valid_position(row + d[1], col + d[2])
            /\ \/ b.board[row + d[1]][col + d[2]] = Empty
               \/ b.board[row + d[1]][col + d[2]].color /= b.board[row][col].color
        sel == SelectSeq(jumps, ok)
    IN [k \in 1..Len(sel) |-> <<row + sel[k][1], col + sel[k][2]>>]

get_rook_moves(b, row, col) == SlideMoves(b, row, col, RookDirs)
get_bishop_moves(b, row, col) == SlideMoves(b, row, col, BishopDirs)
get_queen_moves(b, row, col) ==
    get_rook_moves(b, row, col) \o get_bishop_moves(b, row, col)
get_knight_moves(b, row, col) == StepMoves(b, row, col, KnightJumps)
get_raw_king_moves(b, row, col) == StepMoves(b, row, col, KingDirs)

PawnDirection(color) == IF color = WHITE THEN -1 ELSE 1
\* pawns that never take the double step
PawnStartRow_none(color) == 8

PawnStartRow(color) == IF color = WHITE THEN 6 ELSE 1
PromotionRow(color) == IF color = WHITE THEN 0 ELSE 7

Promotions(row, col) ==
    [k \in 1..4 |-> <<row, col, "promotion", PromotionKinds[k]>>]

get_pawn_moves(b, row, col) ==
    LET piece == b.board[row][col]
        direction == PawnDirection(piece.color)
        new_row == row + direction
        forward ==
            IF is_valid_position(new_row, col) /\ b.board[new_row][col] = Empty
            THEN (IF new_row = PromotionRow(piece.color)
                  THEN Promotions(new_row, col)
                  ELSE << <<new_row, col>> >>)
                 \o (IF row = PawnStartRow(piece.color)
                        /\ b.board[new_row + direction][col] = Empty
                     THEN << <<new_row + direction, col>> >>
                     ELSE << >>)
            ELSE << >>
        capture(dc) ==
            LET new_col == col + dc
            IN IF ~is_valid_position(new_row, new_col) THEN << >>
               ELSE IF b.board[new_row][new_col] /= Empty
                       /\ b.board[new_row][new_col].color /= piece.color
               THEN (IF new_row = PromotionRow(piece.color)
                     THEN Promotions(new_row, new_col)
                     ELSE << <<new_row, new_col>> >>)
               ELSE IF b.en_passant_target = <<new_row, new_col>>
               THEN << <<new_row, new_col, "en_passant">> >>
               ELSE << >>
    IN forward \o capture(-1) \o capture(1)

get_raw_pawn_moves(b, row, col) ==
    LET piece == b.board[row][col]
        direction == PawnDirection(piece.color)
        new_row == row + direction
        forward ==
            IF is_valid_position(new_row, col) /\ b.board[new_row][col] = Empty
            THEN << <<new_row, col>> >>
                 \o (IF row = PawnStartRow(piece.color)
                        /\ b.board[new_row + direction][col] = Empty
                     THEN << <<new_row + direction, col>> >>
                     ELSE << >>)
            ELSE << >>
        capture(dc) ==
            LET new_col == col + dc
            IN IF ~is_valid_position(new_row, new_col) THEN << >>
               ELSE IF b.board[new_row][new_col] /= Empty
                       /\ b.board[new_row][new_col].color /= piece.color
               THEN << <<new_row, new_col>> >>
               ELSE IF b.en_passant_target = <<new_row, new_col>>
               THEN << <<new_row, new_col>> >>
               ELSE << >>
    IN forward \o capture(-1) \o capture(1)

get_raw_piece_moves(b, row, col) ==
    LET type == b.board[row][col].type
    IN IF b.board[row][col] = Empty THEN << >>
       ELSE IF type = "P" THEN get_raw_pawn_moves(b, row, col)
       ELSE IF type = "R" THEN get_rook_moves(b, row, col)
       ELSE IF type = "N" THEN get_knight_moves(b, row, col)
       ELSE IF type = "B" THEN get_bishop_moves(b, row, col)
       ELSE IF type = "Q" THEN get_queen_moves(b, row, col)
       ELSE IF type = "K" THEN get_raw_king_moves(b, row, col)
       ELSE << >>

is_in_check(b, color) ==
    \E row \in Rows, col \in Rows :
        /\ b.board[row][col] /= Empty
        /\ b.board[row][col].color = Opponent(color)
        /\ b.kings[color] \in Range(get_raw_piece_moves(b, row, col))

is_king_in_check_safe(b, color) ==
    \E row \in Rows, col \in Rows :
        /\ b.board[row][col] /= Empty
        /\ b.board[row][col].color = Opponent(color)
        /\ b.kings[color] \in Range(get_raw_piece_moves(b, row, col))

is_square_attacked_safe(b, row, col, by_color) ==
    \E r \in Rows, c \in Rows :
        /\ b.board[r][c] /= Empty
        /\ b.board[r][c].color /= by_color
        /\ <<row, col>> \in Range(get_raw_piece_moves(b, r, c))

get_king_moves(b, row, col) ==
    LET piece == b.board[row][col]
        kingside ==
            IF /\ b.castling_rights[piece.color].kingside
               /\ b.board[row][5] = Empty /\ b.board[row][6] = Empty
               /\ b.board[row][7] /= Empty /\ ~b.board[row][7].has_moved
               /\ ~is_square_attacked_safe(b, row, 5, piece.color)
               /\ ~is_square_attacked_safe(b, row, 6, piece.color)
            THEN << <<row, 6, "kingside_castle">> >> ELSE << >>
        queenside ==
            IF /\ b.castling_rights[piece.color].queenside
               /\ b.board[row][1] = Empty /\ b.board[row][2] = Empty
               /\ b.board[row][3] = Empty
               /\ b.board[row][0] /= Empty /\ ~b.board[row][0].has_moved
               /\ ~is_square_attacked_safe(b, row, 2, piece.color)
               /\ ~is_square_attacked_safe(b, row, 3, piece.color)
            THEN << <<row, 2, "queenside_castle">> >> ELSE << >>
    IN StepMoves(b, row, col, KingDirs)
       \o (IF ~piece.has_moved /\ ~is_king_in_check_safe(b, piece.color)
           THEN kingside \o queenside ELSE << >>)

\* a board that never hands the move over
SwitchPlayers_stays(b) == b

SwitchPlayers(b) ==
    IF b.current_player = WHITE
    THEN [b EXCEPT !.current_player = BLACK]
    ELSE [b EXCEPT !.current_player = WHITE,
                   !.fullmove_number = b.fullmove_number + 1]

ClearRights(rights, piece, from_col) ==
    IF piece.type = "K"
    THEN [rights EXCEPT ![piece.color] = [kingside |-> FALSE, queenside |-> FALSE]]
    ELSE IF piece.type = "R" /\ from_col = 0
    THEN [rights EXCEPT ![piece.color].queenside = FALSE]
    ELSE IF piece.type = "R" /\ from_col = 7
    THEN [rights EXCEPT ![piece.color].kingside = FALSE]
    ELSE rights

\* a board that moves the king on the grid and leaves kings as it was
MoveKing_stale(kings, piece, to_row, to_col) == kings

\* if piece.type == KING: self.kings[piece.color] = (to_row, to_col)
MoveKing(kings, piece, to_row, to_col) ==
    IF piece.type = "K" THEN [kings EXCEPT ![piece.color] = <<to_row, to_col>>]
    ELSE kings

\* a board that sets the target behind every pawn move
EnPassantTarget_any_pawn(piece, from_row, to_row, to_col) ==
    IF piece.type = "P" THEN <<(from_row + to_row) \div 2, to_col>> ELSE NoSquare

\* self.en_passant_target = None, then the square behind a pawn that moved
\* two rows
EnPassantTarget(piece, from_row, to_row, to_col) ==
    IF piece.type = "P" /\ Abs(to_row - from_row) = 2
    THEN <<(from_row + to_row) \div 2, to_col>> ELSE NoSquare

make_move_unchecked(b, from_row, from_col, to_row, to_col) ==
    LET piece == b.board[from_row][from_col]
        captured_piece == b.board[to_row][to_col]
        rights1 == ClearRights(b.castling_rights, piece, from_col)
        rights2 ==
            IF captured_piece /= Empty /\ captured_piece.type = "R" /\ to_col = 0
            THEN [rights1 EXCEPT ![captured_piece.color].queenside = FALSE]
            ELSE IF captured_piece /= Empty /\ captured_piece.type = "R" /\ to_col = 7
            THEN [rights1 EXCEPT ![captured_piece.color].kingside = FALSE]
            ELSE rights1
        grid1 == [b.board EXCEPT ![to_row][to_col] = [piece EXCEPT !.has_moved = TRUE]]
        grid2 == [grid1 EXCEPT ![from_row][from_col] = Empty]
    IN SwitchPlayers(
         [b EXCEPT
            !.en_passant_target = EnPassantTarget(piece, from_row, to_row, to_col),
            !.castling_rights = rights2,
            !.kings = MoveKing(b.kings, piece, to_row, to_col),
            !.board = grid2,
            !.move_history = Append(b.move_history,
                                    <<from_row, from_col, to_row, to_col>>)])

(***************************************************************************)
(* _make_special_move.  The result is the board the call leaves behind and *)
(* whether it raised: rook.has_moved on a missing rook is the one place    *)
(* that raises (AttributeError), after the grid was already changed.       *)
(***************************************************************************)
\* a castling that moves the rook and leaves its has_moved as it was
CastleGrid_rook_unmarked(b, from_row, from_col, to_row, to_col, rook_col, rook_new_col) ==
    LET piece == [b.board[from_row][from_col] EXCEPT !.has_moved = TRUE]
        rook == b.board[from_row][rook_col]
    IN [grid |-> [b.board EXCEPT ![to_row][to_col] = piece,
                                 ![from_row][from_col] = Empty,
                                 ![from_row][rook_new_col] = rook,
                                 ![from_row][rook_col] = Empty],
        raised |-> rook = Empty]

CastleGrid(b, from_row, from_col, to_row, to_col, rook_col, rook_new_col) ==
    LET piece == [b.board[from_row][from_col] EXCEPT !.has_moved = TRUE]
        grid1 == [b.board EXCEPT ![to_row][to_col] = piece]
        grid2 == [grid1 EXCEPT ![from_row][from_col] = Empty]
        rook == grid2[from_row][rook_col]
        grid3 == [grid2 EXCEPT ![from_row][rook_new_col] = rook]
        grid4 == [grid3 EXCEPT ![from_row][rook_col] = Empty]
    IN IF rook = Empty THEN [grid |-> grid4, raised |-> TRUE]
       ELSE [grid |-> [grid4 EXCEPT ![from_row][rook_new_col].has_moved = TRUE],
             raised |-> FALSE]

make_special_move(b, from_row, from_col, to_row, to_col, special_data) ==
    LET special_type == special_data[1]
        piece == b.board[from_row][from_col]
        moved ==
            IF special_type = "promotion"
            THEN LET promotion_piece ==
                         IF Len(special_data) > 1 THEN special_data[2] ELSE "Q"
                 IN [grid |-> [b.board EXCEPT
                                 ![to_row][to_col] = Piece(promotion_piece, piece.color, TRUE),
                                 ![from_row][from_col] = Empty],
                     raised |-> FALSE, king |-> FALSE]
            ELSE IF special_type = "en_passant"
            THEN [grid |-> [b.board EXCEPT
                              ![to_row][to_col] = [piece EXCEPT !.has_moved = TRUE],
                              ![from_row][from_col] = Empty,
                              ![from_row][to_col] = Empty],
                  raised |-> FALSE, king |-> FALSE]
            ELSE IF special_type = "kingside_castle"
            THEN CastleGrid(b, from_row, from_col, to_row, to_col, 7, 5)
                     @@ [king |-> TRUE]
            ELSE IF special_type = "queenside_castle"
            THEN CastleGrid(b, from_row, from_col, to_row, to_col, 0, 3)
                     @@ [king |-> TRUE]
            ELSE [grid |-> b.board, raised |-> FALSE, king |-> FALSE]
    IN IF moved.raised
       THEN [board |-> [b EXCEPT !.board = moved.grid], raised |-> TRUE]
       ELSE [board |->
                SwitchPlayers(
                  [b EXCEPT
                     !.board = moved.grid,
                     !.kings = IF moved.king
                               THEN [b.kings EXCEPT ![piece.color] = <<to_row, to_col>>]
                               ELSE b.kings,
                     !.castling_rights = ClearRights(b.castling_rights, piece, from_col),
                     !.move_history = Append(b.move_history,
                        <<from_row, from_col, to_row, to_col, special_type>>),
                     !.en_passant_target = NoSquare]),
             raised |-> FALSE]

\* the board a generated move leaves on the scratch copy of get_piece_moves
TryMove(b, row, col, move) ==
    IF Len(move) > 2
    THEN make_special_move(b, row, col, move[1], move[2],
                           SubSeq(move, 3, Len(move))).board
    ELSE make_move_unchecked(b, row, col, move[1], move[2])

PseudoMoves(b, row, col) ==
    LET type == b.board[row][col].type
    IN IF type = "P" THEN get_pawn_moves(b, row, col)
       ELSE IF type = "R" THEN get_rook_moves(b, row, col)
       ELSE IF type = "N" THEN get_knight_moves(b, row, col)
       ELSE IF type = "B" THEN get_bishop_moves(b, row, col)
       ELSE IF type = "Q" THEN get_queen_moves(b, row, col)
       ELSE IF type = "K" THEN get_king_moves(b, row, col)
       ELSE << >>

get_piece_moves(b, row, col) ==
    IF b.board[row][col] = Empty \/ b.board[row][col].color /= b.current_player
    THEN << >>
    ELSE LET legal(move) == ~is_in_check(TryMove(b, row, col, move), b.current_player)
         IN SelectSeq(PseudoMoves(b, row, col), legal)

RECURSIVE LegalFrom(_, _)
LegalFrom(b, k) ==
    IF k > 63 THEN << >>
    ELSE LET row == k \div 8
             col == k % 8
             piece_moves == get_piece_moves(b, row, col)
         IN [i \in 1..Len(piece_moves) |->
                <<row, col, piece_moves[i][1], piece_moves[i][2]>>]
            \o LegalFrom(b, k + 1)

get_all_legal_moves(b) == LegalFrom(b, 0)

\* the test of the loop over legal_moves in make_move
MoveMatches(move, to_row, to_col, special_move_type, promotion_piece) ==
    \/ Len(move) = 2 /\ move = <<to_row, to_col>>
    \/ /\ Len(move) > 2
       /\ move[1] = to_row /\ move[2] = to_col
       /\ \/ special_move_type = move[3]
          \/ move[3] = "promotion" /\ Len(move) > 3 /\ promotion_piece = move[4]

\* a clock that only pawn moves reset
NextClock_pawn_only(b, piece, to_row, to_col) ==
    IF piece.type = "P" THEN 0 ELSE b.halfmove_clock + 1

\* Reset halfmove clock for pawn moves or captures
NextClock(b, piece, to_row, to_col) ==
    IF piece.type = "P" \/ b.board[to_row][to_col] /= Empty
    THEN 0 ELSE b.halfmove_clock + 1

make_move(b, from_row, from_col, to_row, to_col, special_move_type, promotion_piece) ==
    LET rejected == [ok |-> FALSE, raised |-> FALSE, board |-> b]
        piece == b.board[from_row][from_col]
    IN IF ~is_valid_position(from_row, from_col) \/ ~is_valid_position(to_row, to_col)
       THEN rejected
       ELSE IF piece = Empty \/ piece.color /= b.current_player
       THEN rejected
       ELSE IF ~\E move \in Range(get_piece_moves(b, from_row, from_col)) :
                   MoveMatches(move, to_row, to_col, special_move_type, promotion_piece)
       THEN rejected
       ELSE LET clocked ==
                    [b EXCEPT !.halfmove_clock = NextClock(b, piece, to_row, to_col)]
            IN IF special_move_type /= None
               THEN LET res == make_special_move(clocked, from_row, from_col, to_row,
                                   to_col, <<special_move_type, promotion_piece>>)
                    IN [ok |-> ~res.raised, raised |-> res.raised, board |-> res.board]
               ELSE [ok |-> TRUE, raised |-> FALSE,
                     board |-> make_move_unchecked(clocked, from_row, from_col,
                                                   to_row, to_col)]

\* a mate test that looks at the check of the side that has just moved
is_checkmate_wrong_side(b) ==
    is_in_check(b, Opponent(b.current_player)) /\ Len(get_all_legal_moves(b)) = 0

is_checkmate(b) ==
    is_in_check(b, b.current_player) /\ Len(get_all_legal_moves(b)) = 0

is_stalemate(b) ==
    ~is_in_check(b, b.current_player) /\ Len(get_all_legal_moves(b)) = 0

is_draw_by_fifty_moves(b) == b.halfmove_clock >= 100

\* the non-king pieces of one colour, in row-major order, as (type, row, col)
RECURSIVE PiecesFrom(_, _, _)
PiecesFrom(b, color, k) ==
    IF k > 63 THEN << >>
    ELSE LET piece == b.board[k \div 8][k % 8]
         IN (IF piece /= Empty /\ piece.type /= "K" /\ piece.color = color
             THEN << <<piece.type, k \div 8, k % 8>> >> ELSE << >>)
            \o PiecesFrom(b, color, k + 1)

is_insufficient_material(b) ==
    LET white_pieces == PiecesFrom(b, WHITE, 0)
        black_pieces == PiecesFrom(b, BLACK, 0)
        nw == Len(white_pieces)
        nb == Len(black_pieces)
    IN IF nw = 0 /\ nb = 0 THEN TRUE
       ELSE IF nw = 1 /\ nb = 0 /\ white_pieces[1][1] \in {"B", "N"} THEN TRUE
       ELSE IF nb = 1 /\ nw = 0 /\ black_pieces[1][1] \in {"B", "N"} THEN TRUE
       ELSE IF nw = 1 /\ nb = 1 /\ white_pieces[1][1] = "B" /\ black_pieces[1][1] = "B"
       THEN (white_pieces[1][2] + white_pieces[1][3]) % 2
              = (black_pieces[1][2] + black_pieces[1][3]) % 2
       ELSE IF nw = 1 /\ nb = 1 /\ white_pieces[1][1] = "N" /\ black_pieces[1][1] = "N"
       THEN TRUE
       ELSE FALSE

\* _get_position_key hashes a string of the placement (kind and colour of
\* every square), the side to move, the castling rights and the en-passant
\* target; the key is modelled by the tuple of what the string spells out.
get_position_key(b) ==
    <<[r \in Rows |-> [c \in Rows |-> <<b.board[r][c].type, b.board[r][c].color>>]],
      b.current_player, b.castling_rights, b.en_passant_target>>

\* the loop of is_threefold_repetition: i counts the iterations left, temp is
\* the copy whose move_history alone is popped
RECURSIVE RepetitionLoop(_, _, _, _)
RepetitionLoop(b, temp, i, position_count) ==
    IF i = 0 THEN FALSE
    ELSE IF Len(temp.move_history) < 2 THEN FALSE
    ELSE LET popped == [temp EXCEPT !.move_history =
                           SubSeq(temp.move_history, 1, Len(temp.move_history) - 1)]
             count == IF get_position_key(popped) = get_position_key(b)
                      THEN position_count + 1 ELSE position_count
         IN IF count > position_count /\ count >= 3 THEN TRUE
            ELSE RepetitionLoop(b, popped, i - 1, count)

Min(x, y) == IF x < y THEN x ELSE y
Max(x, y) == IF x > y THEN x ELSE y

is_threefold_repetition(b) ==
    IF Len(b.move_history) < 8 THEN FALSE
    ELSE RepetitionLoop(b, b, Min(Len(b.move_history), 20), 1)

\* a ladder that tests the draws by clock and material before mate
get_game_result_draws_first(b) ==
    IF is_draw_by_fifty_moves(b) THEN "draw"
    ELSE IF is_insufficient_material(b) THEN "draw"
    ELSE IF is_checkmate(b)
    THEN (IF b.current_player = WHITE THEN "black_wins" ELSE "white_wins")
    ELSE IF is_stalemate(b) THEN "draw"
    ELSE IF is_threefold_repetition(b) THEN "draw"
    ELSE "in_progress"

get_game_result(b) ==
    IF is_checkmate(b)
    THEN (IF b.current_player = WHITE THEN "black_wins" ELSE "white_wins")
    ELSE IF is_stalemate(b) THEN "draw"
    ELSE IF is_draw_by_fifty_moves(b) THEN "draw"
    ELSE IF is_insufficient_material(b) THEN "draw"
    ELSE IF is_threefold_repetition(b) THEN "draw"
    ELSE "in_progress"

(***************************************************************************)
(* ChessMCTS.search of src/main.py.                                        *)
(***************************************************************************)
PieceValue(type) ==
    IF type = "Q" THEN 9 ELSE IF type = "R" THEN 5 ELSE IF type = "B" THEN 3
    ELSE IF type = "N" THEN 3 ELSE IF type = "P" THEN 1 ELSE 0

\* make_move as the engine calls it: four squares, a fifth element if the
\* move tuple has one
EngineCall(b, move) ==
    make_move(b, move[1], move[2], move[3], move[4],
              IF Len(move) > 4 THEN move[5] ELSE None, None)

get_move_priority(b, move) ==
    LET target == b.board[move[3]][move[4]]
        temp == EngineCall(b, move)
    IN (IF target /= Empty THEN 10 + PieceValue(target.type) ELSE 0)
       + (IF Len(move) > 4 /\ move[5] = "promotion" THEN 20 ELSE 0)
       + (IF ~temp.raised /\ is_in_check(temp.board, Opponent(b.current_player))
          THEN 5 ELSE 0)
       + (IF <<move[3], move[4]>> \in {<<3, 3>>, <<3, 4>>, <<4, 3>>, <<4, 4>>}
          THEN 2 ELSE 0)

\* list.sort(key=..., reverse=True) on records with a prio field: by key
\* descending, equal keys in their original order
SortByPriority(items) ==
    LET n == Len(items)
        before(j, i) ==
            items[j].prio > items[i].prio \/ (items[j].prio = items[i].prio /\ j < i)
        pos(i) == 1 + Cardinality({j \in 1..n : before(j, i)})
    IN [k \in 1..n |-> items[CHOOSE i \in 1..n : pos(i) = k]]

NoMove == << >>

\* for every legal move: whether make_move accepts it as the engine passes
\* it, whether it then mates, and its priority
MoveInfo(b) ==
    LET legal_moves == get_all_legal_moves(b)
    IN << >> \o [i \in 1..Len(legal_moves) |->
           LET temp == EngineCall(b, legal_moves[i])
           IN [move |-> legal_moves[i],
               ok |-> temp.ok,
               mate |-> temp.ok /\ is_checkmate(temp.board),
               prio |-> get_move_priority(b, legal_moves[i])]]

\* MCTSNode.is_terminal, on the board of the node
is_terminal(b) ==
    is_checkmate(b) \/ is_stalemate(b) \/ Len(get_all_legal_moves(b)) = 0

IsAccepted(item) == item.ok
IsMate(item) == item.mate

\* What search can return on board b when its loop completes `simulations`
\* playouts before the time limit: each of the first playouts expands one
\* more root child, in priority order, skipping the moves make_move rejects;
\* which child _select_best_move then prefers depends on the random playouts.
search_from(legal_moves, simulations) ==
    LET mating == SelectSeq(legal_moves, IsMate)
        untried_moves == << >> \o SortByPriority(legal_moves)
        expanded == SelectSeq(untried_moves, IsAccepted)
        children == SubSeq(expanded, 1, Min(simulations, Len(expanded)))
    IN IF Len(legal_moves) = 0 THEN {NoMove}
       ELSE IF Len(mating) > 0 THEN {mating[1].move}
       ELSE IF Len(children) > 0 THEN {child.move : child \in Range(children)}
       ELSE IF Len(expanded) > 0 THEN {expanded[1].move}
       ELSE {legal_moves[1].move}

search(b, simulations) == search_from(MoveInfo(b), simulations)

(***************************************************************************)
(* The ChessBoard of src/models/chess_board_broken.py.  Its board record   *)
(* has the fields of the one above and position_history; move_history      *)
(* holds the notation of each move, modelled as (file, rank, file, rank).  *)
(***************************************************************************)
broken_NewBoard ==
    [board |-> setup_initial_position,
     current_player |-> WHITE,
     kings |-> [white |-> <<7, 4>>, black |-> <<0, 4>>],
     castling_rights |-> [white |-> [kingside |-> TRUE, queenside |-> TRUE],
                          black |-> [kingside |-> TRUE, queenside |-> TRUE]],
     en_passant_target |-> NoSquare,
     halfmove_clock |-> 0,
     fullmove_number |-> 1,
     move_history |-> << >>,
     position_history |-> << >>]

BrokenKingDirs == << <<-1, -1>>, <<-1, 0>>, <<-1, 1>>, <<0, -1>>,
                     <<0, 1>>, <<1, -1>>, <<1, 0>>, <<1, 1>> >>

broken_get_sliding_moves(b, row, col, directions) == SlideMoves(b, row, col, directions)

broken_get_raw_pawn_moves(b, row, col) ==
    LET piece == b.board[row][col]
        direction == PawnDirection(piece.color)
        new_row == row + direction
        forward ==
            IF 0 <= new_row /\ new_row < 8 /\ b.board[new_row][col] = Empty
            THEN << <<new_row, col>> >>
                 \o (IF row = PawnStartRow(piece.color)
                        /\ b.board[new_row + direction][col] = Empty
                     THEN << <<new_row + direction, col>> >>
                     ELSE << >>)
            ELSE << >>
        capture(dc) ==
            LET new_col == col + dc
            IN IF ~(0 <= new_col /\ new_col < 8 /\ 0 <= new_row /\ new_row < 8)
               THEN << >>
               ELSE IF b.board[new_row][new_col] /= Empty
                       /\ b.board[new_row][new_col].color /= piece.color
               THEN << <<new_row, new_col>> >>
               ELSE IF b.en_passant_target = <<new_row, new_col>>
               THEN << <<new_row, new_col>> >>
               ELSE << >>
    IN forward \o capture(-1) \o capture(1)

broken_get_raw_piece_moves(b, row, col) ==
    LET type == b.board[row][col].type
    IN IF b.board[row][col] = Empty THEN << >>
       ELSE IF type = "P" THEN broken_get_raw_pawn_moves(b, row, col)
       ELSE IF type = "R" THEN broken_get_sliding_moves(b, row, col, RookDirs)
       ELSE IF type = "N" THEN StepMoves(b, row, col, KnightJumps)
       ELSE IF type = "B" THEN broken_get_sliding_moves(b, row, col, BishopDirs)
       ELSE IF type = "Q"
       THEN broken_get_sliding_moves(b, row, col, RookDirs \o BishopDirs)
       ELSE IF type = "K" THEN StepMoves(b, row, col, BrokenKingDirs)
       ELSE << >>

broken_get_castling_moves(b, row, col) ==
    LET piece == b.board[row][col]
    IN IF piece.type /= "K" \/ piece.has_moved THEN << >>
       ELSE (IF /\ b.castling_rights[piece.color].kingside
                /\ b.board[row][5] = Empty /\ b.board[row][6] = Empty
                /\ b.board[row][7] /= Empty /\ b.board[row][7].type = "R"
                /\ ~b.board[row][7].has_moved
             THEN << <<row, 6>> >> ELSE << >>)
            \o (IF /\ b.castling_rights[piece.color].queenside
                   /\ b.board[row][1] = Empty /\ b.board[row][2] = Empty
                   /\ b.board[row][3] = Empty
                   /\ b.board[row][0] /= Empty /\ b.board[row][0].type = "R"
                   /\ ~b.board[row][0].has_moved
                THEN << <<row, 2>> >> ELSE << >>)

broken_is_in_check(b, color) ==
    \E row \in Rows, col \in Rows :
        /\ b.board[row][col] /= Empty
        /\ b.board[row][col].color = Opponent(color)
        /\ b.kings[color] \in Range(broken_get_raw_piece_moves(b, row, col))

broken_is_square_attacked(b, row, col, defending_color) ==
    \E r \in Rows, c \in Rows :
        /\ b.board[r][c] /= Empty
        /\ b.board[r][c].color = Opponent(defending_color)
        /\ <<row, col>> \in Range(broken_get_raw_piece_moves(b, r, c))

\* _make_move_unchecked moves whatever stands on the from-square; it fails
\* only when the square is empty
broken_make_move_unchecked(b, from_row, from_col, to_row, to_col) ==
    LET piece == b.board[from_row][from_col]
        rook_col == IF to_col > from_col THEN 7 ELSE 0
        rook_new_col == IF to_col > from_col THEN 5 ELSE 3
        rook == b.board[from_row][rook_col]
        grid1 ==
            IF piece.type = "K" /\ Abs(to_col - from_col) = 2
            THEN [b.board EXCEPT
                    ![from_row][rook_new_col] =
                        IF rook /= Empty THEN [rook EXCEPT !.has_moved = TRUE] ELSE rook,
                    ![from_row][rook_col] = Empty]
            ELSE IF piece.type = "P" /\ b.en_passant_target = <<to_row, to_col>>
            THEN [b.board EXCEPT
                    ![to_row + (IF piece.color = WHITE THEN 1 ELSE -1)][to_col] = Empty]
            ELSE b.board
        grid2 == [grid1 EXCEPT ![to_row][to_col] = [piece EXCEPT !.has_moved = TRUE],
                               ![from_row][from_col] = Empty]
    IN IF piece = Empty THEN [ok |-> FALSE, board |-> b]
       ELSE [ok |-> TRUE,
             board |-> [b EXCEPT
                 !.board = grid2,
                 !.kings = IF piece.type = "K"
                           THEN [b.kings EXCEPT ![piece.color] = <<to_row, to_col>>]
                           ELSE b.kings]]

broken_is_legal_move(b, from_row, from_col, to_row, to_col) ==
    LET piece == b.board[from_row][from_col]
        step == IF to_col > from_col THEN 1 ELSE -1
        castling == piece /= Empty /\ piece.type = "K" /\ Abs(to_col - from_col) = 2
        temp == broken_make_move_unchecked(b, from_row, from_col, to_row, to_col)
    IN IF castling /\ broken_is_in_check(b, piece.color) THEN FALSE
       ELSE IF castling
               /\ \E col \in {from_col + step, from_col + 2 * step} :
                     broken_is_square_attacked(b, from_row, col, piece.color)
       THEN FALSE
       ELSE temp.ok /\ ~broken_is_in_check(temp.board, b.current_player)

broken_get_piece_moves(b, row, col) ==
    LET piece == b.board[row][col]
        legal(move) == broken_is_legal_move(b, row, col, move[1], move[2])
    IN IF piece = Empty \/ piece.color /= b.current_player THEN << >>
       ELSE SelectSeq(broken_get_raw_piece_moves(b, row, col)
                        \o (IF piece.type = "K"
                            THEN broken_get_castling_moves(b, row, col) ELSE << >>),
                      legal)

RECURSIVE BrokenLegalFrom(_, _)
BrokenLegalFrom(b, k) ==
    IF k > 63 THEN << >>
    ELSE LET row == k \div 8
             col == k % 8
             piece_moves == broken_get_piece_moves(b, row, col)
         IN [i \in 1..Len(piece_moves) |->
                <<row, col, piece_moves[i][1], piece_moves[i][2]>>]
            \o BrokenLegalFrom(b, k + 1)

broken_get_all_legal_moves(b) == BrokenLegalFrom(b, 0)

\* the key is a string of the placement (colour initial and kind, "." for an
\* empty square), the side to move, the castling rights and the target
broken_get_position_key(b) ==
    <<[r \in Rows |-> [c \in Rows |-> <<b.board[r][c].color, b.board[r][c].type>>]],
      b.current_player, b.castling_rights, b.en_passant_target>>

\* promotion_map.get(promotion_piece.upper(), QUEEN), QUEEN without a kind
PromotionType(promotion_piece) ==
    IF promotion_piece \in {"Q", "R", "B", "N"} THEN promotion_piece ELSE "Q"

broken_make_move(b, from_row, from_col, to_row, to_col, special_move_type, promotion_piece) ==
    LET piece == b.board[from_row][from_col]
        captured_piece == b.board[to_row][to_col]
        targeted == [b EXCEPT !.en_passant_target =
                        IF piece.type = "P" /\ Abs(to_row - from_row) = 2
                        THEN <<(from_row + to_row) \div 2, from_col>> ELSE NoSquare]
        moved == broken_make_move_unchecked(targeted, from_row, from_col,
                                            to_row, to_col).board
        promoted ==
            IF piece.type = "P" /\ (to_row = 0 \/ to_row = 7)
            THEN [moved EXCEPT !.board[to_row][to_col] =
                     Piece(PromotionType(promotion_piece), piece.color, TRUE)]
            ELSE moved
        rights ==
            IF piece.type = "K"
            THEN [promoted.castling_rights EXCEPT
                     ![piece.color] = [kingside |-> FALSE, queenside |-> FALSE]]
            ELSE IF piece.type = "R" /\ from_row \in {0, 7} /\ from_col = 0
            THEN [promoted.castling_rights EXCEPT ![piece.color].queenside = FALSE]
            ELSE IF piece.type = "R" /\ from_row \in {0, 7} /\ from_col = 7
            THEN [promoted.castling_rights EXCEPT ![piece.color].kingside = FALSE]
            ELSE promoted.castling_rights
        counted ==
            [promoted EXCEPT
                !.castling_rights = rights,
                !.halfmove_clock = IF piece.type = "P" \/ captured_piece /= Empty
                                   THEN 0 ELSE b.halfmove_clock + 1,
                !.fullmove_number = IF b.current_player = BLACK
                                    THEN b.fullmove_number + 1 ELSE b.fullmove_number,
                !.move_history = Append(b.move_history,
                                   <<from_col, 8 - from_row, to_col, 8 - to_row>>)]
        recorded ==
            [counted EXCEPT !.position_history =
                Append(b.position_history, broken_get_position_key(counted))]
    IN IF ~broken_is_legal_move(b, from_row, from_col, to_row, to_col)
       THEN [ok |-> FALSE, raised |-> FALSE, board |-> b]
       ELSE [ok |-> TRUE, raised |-> FALSE,
             board |-> [recorded EXCEPT !.current_player = Opponent(b.current_player)]]

(***************************************************************************)
(* The callers.  A session plays one of the recorded games below from the  *)
(* starting position, each call a make_move with the squares and marker    *)
(* the game records; or it plays any generated move for the first          *)
(* FreePlies half-moves.                                                   *)
(***************************************************************************)
PromotionGame ==
    << <<6, 0, 4, 0, "none", "none">>, <<1, 2, 2, 2, "none", "none">>, <<4, 0, 3, 0, "none", "none">>,
       <<0, 3, 1, 2, "none", "none">>, <<3, 0, 2, 0, "none", "none">>, <<1, 2, 3, 4, "none", "none">>,
       <<2, 0, 1, 1, "none", "none">>, <<1, 7, 2, 7, "none", "none">>, <<1, 1, 0, 2, "promotion", "Q">> >>

CornerGame ==
    << <<6, 0, 4, 0, "none", "none">>, <<1, 2, 2, 2, "none", "none">>, <<4, 0, 3, 0, "none", "none">>,
       <<0, 3, 1, 2, "none", "none">>, <<3, 0, 2, 0, "none", "none">>, <<1, 2, 3, 4, "none", "none">>,
       <<2, 0, 1, 1, "none", "none">>, <<1, 7, 2, 7, "none", "none">>, <<1, 1, 0, 0, "promotion", "Q">>,
       <<3, 4, 6, 4, "none", "none">> >>

EnPassantGame ==
    << <<6, 4, 5, 4, "none", "none">>, <<1, 7, 2, 7, "none", "none">>, <<7, 4, 6, 4, "none", "none">>,
       <<0, 1, 2, 2, "none", "none">>, <<6, 4, 5, 5, "none", "none">>, <<2, 2, 0, 1, "none", "none">>,
       <<6, 7, 4, 7, "none", "none">>, <<0, 1, 2, 2, "none", "none">>, <<4, 7, 3, 7, "none", "none">>,
       <<2, 2, 0, 1, "none", "none">>, <<6, 6, 5, 6, "none", "none">>, <<0, 1, 2, 2, "none", "none">>,
       <<5, 5, 4, 6, "none", "none">>, <<1, 3, 2, 3, "none", "none">>, <<4, 6, 4, 7, "none", "none">>,
       <<1, 6, 3, 6, "none", "none">>, <<3, 7, 2, 6, "en_passant", "none">> >>

PawnAttackGame ==
    << <<6, 4, 4, 4, "none", "none">>, <<1, 3, 3, 3, "none", "none">>, <<7, 6, 5, 5, "none", "none">>,
       <<3, 3, 4, 4, "none", "none">>, <<5, 5, 3, 6, "none", "none">>, <<4, 4, 5, 4, "none", "none">>,
       <<7, 5, 4, 2, "none", "none">>, <<5, 4, 6, 4, "none", "none">>, <<7, 4, 7, 6, "kingside_castle", "none">>,
       <<6, 4, 7, 3, "promotion", "N">> >>

ScholarGame ==
    << <<6, 4, 4, 4, "none", "none">>, <<1, 4, 3, 4, "none", "none">>, <<7, 5, 4, 2, "none", "none">>,
       <<0, 1, 2, 2, "none", "none">>, <<7, 3, 3, 7, "none", "none">>, <<0, 6, 2, 5, "none", "none">>,
       <<3, 7, 1, 5, "none", "none">> >>

CastleGame ==
    << <<6, 4, 4, 4, "none", "none">>, <<1, 4, 3, 4, "none", "none">>, <<7, 6, 5, 5, "none", "none">>,
       <<0, 1, 2, 2, "none", "none">>, <<7, 5, 4, 2, "none", "none">>, <<0, 5, 3, 2, "none", "none">>,
       <<7, 4, 7, 6, "kingside_castle", "none">>, <<0, 6, 2, 5, "none", "none">>, <<6, 3, 5, 3, "none", "none">>,
       <<0, 4, 0, 6, "kingside_castle", "none">>, <<7, 2, 3, 6, "none", "none">>, <<1, 3, 2, 3, "none", "none">>,
       <<7, 1, 5, 2, "none", "none">>, <<0, 2, 4, 6, "none", "none">>, <<7, 3, 6, 3, "none", "none">>,
       <<0, 3, 1, 3, "none", "none">>, <<7, 0, 7, 3, "none", "none">>, <<0, 0, 0, 3, "none", "none">> >>

LongCastleGame ==
    << <<6, 3, 4, 3, "none", "none">>, <<1, 3, 3, 3, "none", "none">>, <<7, 1, 5, 2, "none", "none">>,
       <<0, 1, 2, 2, "none", "none">>, <<7, 2, 4, 5, "none", "none">>, <<0, 2, 3, 5, "none", "none">>,
       <<7, 3, 6, 3, "none", "none">>, <<0, 3, 1, 3, "none", "none">>, <<7, 4, 7, 2, "queenside_castle", "none">>,
       <<0, 4, 0, 2, "queenside_castle", "none">>, <<6, 7, 4, 7, "none", "none">>, <<1, 7, 3, 7, "none", "none">>,
       <<7, 7, 5, 7, "none", "none">>, <<0, 7, 2, 7, "none", "none">> >>

RookGame ==
    << <<6, 0, 4, 0, "none", "none">>, <<1, 7, 3, 7, "none", "none">>, <<7, 0, 5, 0, "none", "none">>,
       <<0, 7, 2, 7, "none", "none">>, <<5, 0, 5, 7, "none", "none">>, <<2, 7, 2, 0, "none", "none">>,
       <<5, 7, 3, 7, "none", "none">>, <<2, 0, 4, 0, "none", "none">>, <<3, 7, 0, 7, "none", "none">>,
       <<4, 0, 7, 0, "none", "none">>, <<0, 7, 0, 6, "none", "none">>, <<7, 0, 7, 1, "none", "none">> >>

KingWalkGame ==
    << <<6, 3, 4, 3, "none", "none">>, <<1, 0, 2, 0, "none", "none">>, <<4, 3, 3, 3, "none", "none">>,
       <<2, 0, 3, 0, "none", "none">>, <<7, 4, 6, 3, "none", "none">>, <<3, 0, 4, 0, "none", "none">>,
       <<6, 3, 5, 3, "none", "none">>, <<4, 0, 5, 0, "none", "none">>, <<5, 3, 4, 3, "none", "none">>,
       <<1, 4, 3, 4, "none", "none">>, <<3, 3, 2, 4, "none", "none">> >>

KnightGame ==
    << <<6, 4, 4, 4, "none", "none">>, <<0, 1, 2, 2, "none", "none">>, <<4, 4, 3, 4, "none", "none">>,
       <<1, 3, 3, 3, "none", "none">>, <<3, 4, 2, 3, "none", "none">> >>

Games == <<PromotionGame, CornerGame, EnPassantGame, PawnAttackGame, ScholarGame,
           CastleGame, LongCastleGame, RookGame>>

BrokenGames == Games \o <<KingWalkGame, KnightGame>>

\* Sam Loyd's ten-move stalemate
StalemateGame ==
    << <<6, 4, 5, 4, "none", "none">>, <<1, 0, 3, 0, "none", "none">>, <<7, 3, 3, 7, "none", "none">>,
       <<0, 0, 2, 0, "none", "none">>, <<3, 7, 3, 0, "none", "none">>, <<1, 7, 3, 7, "none", "none">>,
       <<6, 7, 4, 7, "none", "none">>, <<2, 0, 2, 7, "none", "none">>, <<3, 0, 1, 2, "none", "none">>,
       <<1, 5, 2, 5, "none", "none">>, <<1, 2, 1, 3, "none", "none">>, <<0, 4, 1, 5, "none", "none">>,
       <<1, 3, 1, 1, "none", "none">>, <<0, 3, 5, 3, "none", "none">>, <<1, 1, 0, 1, "none", "none">>,
       <<5, 3, 1, 7, "none", "none">>, <<0, 1, 0, 2, "none", "none">>, <<1, 5, 2, 6, "none", "none">>,
       <<0, 2, 2, 4, "none", "none">> >>

\* every piece but the kings and a knight each is captured, then the black
\* knight mates
BareKnightsGame ==
    << <<6, 2, 5, 2, "none", "none">>, <<1, 7, 3, 7, "none", "none">>, <<5, 2, 4, 2, "none", "none">>,
       <<1, 1, 3, 1, "none", "none">>, <<4, 2, 3, 1, "none", "none">>, <<0, 2, 2, 0, "none", "none">>,
       <<3, 1, 2, 0, "none", "none">>, <<0, 1, 2, 0, "none", "none">>, <<6, 1, 4, 1, "none", "none">>,
       <<2, 0, 4, 1, "none", "none">>, <<7, 1, 5, 0, "none", "none">>, <<4, 1, 6, 0, "none", "none">>,
       <<5, 0, 7, 1, "none", "none">>, <<6, 0, 7, 2, "none", "none">>, <<7, 0, 1, 0, "none", "none">>,
       <<7, 2, 6, 4, "none", "none">>, <<1, 0, 1, 2, "none", "none">>, <<6, 4, 7, 6, "none", "none">>,
       <<7, 3, 3, 7, "none", "none">>, <<0, 3, 1, 2, "none", "none">>, <<3, 7, 0, 7, "none", "none">>,
       <<1, 2, 6, 7, "none", "none">>, <<0, 7, 0, 6, "none", "none">>, <<6, 7, 7, 7, "none", "none">>,
       <<0, 6, 1, 6, "none", "none">>, <<7, 7, 6, 6, "none", "none">>, <<1, 6, 1, 5, "none", "none">>,
       <<0, 4, 1, 5, "none", "none">>, <<7, 5, 6, 6, "none", "none">>, <<1, 4, 2, 4, "none", "none">>,
       <<6, 6, 0, 0, "none", "none">>, <<1, 3, 3, 3, "none", "none">>, <<0, 0, 3, 3, "none", "none">>,
       <<2, 4, 3, 3, "none", "none">>, <<6, 5, 5, 5, "none", "none">>, <<7, 6, 5, 5, "none", "none">>,
       <<7, 4, 6, 4, "none", "none">>, <<5, 5, 6, 3, "none", "none">>, <<6, 4, 6, 5, "none", "none">>,
       <<0, 5, 5, 0, "none", "none">>, <<7, 1, 5, 0, "none", "none">>, <<6, 3, 7, 5, "none", "none">>,
       <<5, 0, 3, 1, "none", "none">>, <<3, 3, 4, 3, "none", "none">>, <<3, 1, 4, 3, "none", "none">>,
       <<1, 5, 2, 5, "none", "none">>, <<4, 3, 5, 5, "none", "none">>, <<2, 5, 3, 5, "none", "none">>,
       <<5, 5, 6, 7, "none", "none">>, <<3, 5, 4, 5, "none", "none">>, <<6, 5, 6, 6, "none", "none">>,
       <<4, 5, 5, 4, "none", "none">>, <<6, 6, 7, 7, "none", "none">>, <<5, 4, 6, 4, "none", "none">>,
       <<6, 7, 5, 5, "none", "none">>, <<6, 4, 6, 5, "none", "none">>, <<5, 5, 6, 7, "none", "none">>,
       <<7, 5, 5, 6, "none", "none">> >>

\* 1.f3 e5 2.g4, fifty moves of the knights going out and back, then Qh4 mate
KnightCycle ==
    << <<0, 1, 2, 2, "none", "none">>, <<7, 1, 5, 2, "none", "none">>, <<2, 2, 0, 1, "none", "none">>,
       <<5, 2, 7, 1, "none", "none">> >>

RECURSIVE Repeat(_, _)
Repeat(s, n) == IF n = 0 THEN << >> ELSE s \o Repeat(s, n - 1)

FiftyMoveGame ==
    << <<6, 5, 5, 5, "none", "none">>, <<1, 4, 3, 4, "none", "none">>,
       <<6, 6, 4, 6, "none", "none">> >>
    \o Repeat(KnightCycle, 25)
    \o << <<0, 3, 4, 7, "none", "none">> >>

EndGames == <<StalemateGame, BareKnightsGame, FiftyMoveGame>>

FreePlies == 1
MaxProbes == 1
MaxSimulations == 2

Markers == {None, "promotion", "en_passant", "kingside_castle", "queenside_castle"}
PromotionArgs == {None, "Q", "N", "K"}

VARIABLES board, game, ply, probes, last

vars == <<board, game, ply, probes, last>>

Call(b, c) == make_move(b, c[1], c[2], c[3], c[4], c[5], c[6])

Outcome(op, c, pre, res) ==
    [op |-> op, call |-> c, ok |-> res.ok, raised |-> res.raised, pre |-> pre,
     result |-> NoMove]

Init ==
    /\ board = NewBoard
    /\ game = 0
    /\ ply = 0
    /\ probes = 0
    /\ last = [op |-> "new", call |-> << >>, ok |-> FALSE, raised |-> FALSE,
               pre |-> NewBoard, result |-> NoMove]

\* the next recorded call of the game being played
Play ==
    \E g \in 1..Len(Games) :
        /\ game = g \/ (game = 0 /\ ply = 0)
        /\ probes = 0
        /\ ply < Len(Games[g])
        /\ LET c == Games[g][ply + 1]
               res == Call(board, c)
           IN /\ board' = res.board
              /\ last' = Outcome("make_move", c, board, res)
        /\ game' = g
        /\ ply' = ply + 1
        /\ UNCHANGED probes

\* any move get_piece_moves generates, passed with its marker
GeneratedCalls(b) ==
    UNION {{ <<row, col, mv[1], mv[2],
               IF Len(mv) > 2 THEN mv[3] ELSE None,
               IF Len(mv) > 3 THEN mv[4] ELSE None>> :
               mv \in Range(get_piece_moves(b, row, col)) } :
           row \in Rows, col \in Rows}

FreePlay ==
    /\ game = 0
    /\ ply < FreePlies
    /\ \E c \in GeneratedCalls(board) :
          LET res == Call(board, c)
          IN /\ board' = res.board
             /\ last' = Outcome("make_move", c, board, res)
    /\ ply' = ply + 1
    /\ UNCHANGED <<game, probes>>

\* Calls a client may send that the game does not record: the squares of the
\* next recorded call, of the call after it (a piece of the side not to move)
\* and of the next call reversed, each with every marker and promotion kind.
ProbeSquares(g, k) ==
    LET c == Games[g][k + 1]
    IN {<<c[1], c[2], c[3], c[4]>>, <<c[3], c[4], c[1], c[2]>>}
       \cup (IF k + 1 < Len(Games[g])
             THEN {SubSeq(Games[g][k + 2], 1, 4)} ELSE {})

ProbeCalls(g, k) ==
    {<<q[1], q[2], q[3], q[4], marker, kind>> :
        q \in ProbeSquares(g, k), marker \in Markers, kind \in PromotionArgs}
    \ {Games[g][k + 1]}

Probe ==
    /\ game > 0
    /\ ply < Len(Games[game])
    /\ probes < MaxProbes
    /\ \E c \in ProbeCalls(game, ply) :
          LET res == Call(board, c)
          IN /\ board' = res.board
             /\ last' = Outcome("probe", c, board, res)
    /\ probes' = probes + 1
    /\ UNCHANGED <<game, ply>>

\* the session asks the engine for a move, once in a position; the board is
\* left as it is
Search ==
    /\ probes = 0
    /\ last.op /= "search"
    /\ \E legal_moves \in {MoveInfo(board)} :
          \E simulations \in 1..MaxSimulations :
             \E move \in search_from(legal_moves, simulations) :
                last' = [op |-> "search", call |-> << >>, ok |-> FALSE,
                         raised |-> FALSE, pre |-> board, result |-> move]
    /\ UNCHANGED <<board, game, ply, probes>>

\* the next recorded call of a game played to its end
PlayEnd ==
    \E g \in 1..Len(EndGames) :
        /\ game = g \/ (game = 0 /\ ply = 0)
        /\ ply < Len(EndGames[g])
        /\ LET c == EndGames[g][ply + 1]
               res == Call(board, c)
           IN /\ board' = res.board
              /\ last' = Outcome("make_move", c, board, res)
        /\ game' = g
        /\ ply' = ply + 1
        /\ UNCHANGED probes

(***************************************************************************)
(* The same callers on the board of chess_board_broken.py.                 *)
(***************************************************************************)
BrokenCall(b, c) == broken_make_move(b, c[1], c[2], c[3], c[4], c[5], c[6])

BrokenInit ==
    /\ board = broken_NewBoard
    /\ game = 0
    /\ ply = 0
    /\ probes = 0
    /\ last = [op |-> "new", call |-> << >>, ok |-> FALSE, raised |-> FALSE,
               pre |-> broken_NewBoard, result |-> NoMove]

BrokenPlay ==
    \E g \in 1..Len(BrokenGames) :
        /\ game = g \/ (game = 0 /\ ply = 0)
        /\ probes = 0
        /\ ply < Len(BrokenGames[g])
        /\ LET c == BrokenGames[g][ply + 1]
               res == BrokenCall(board, c)
           IN /\ board' = res.board
              /\ last' = Outcome("make_move", c, board, res)
        /\ game' = g
        /\ ply' = ply + 1
        /\ UNCHANGED probes

\* a call the game does not record: the next recorded call reversed, or the
\* squares of the call after it (a piece of the side not to move)
BrokenProbeCalls(g, k) ==
    LET c == BrokenGames[g][k + 1]
    IN {<<c[3], c[4], c[1], c[2], None, None>>}
       \cup (IF k + 1 < Len(BrokenGames[g])
             THEN {SubSeq(BrokenGames[g][k + 2], 1, 4) \o <<None, None>>} ELSE {})

BrokenProbe ==
    /\ game > 0
    /\ ply < Len(BrokenGames[game])
    /\ probes < MaxProbes
    /\ \E c \in BrokenProbeCalls(game, ply) :
          LET res == BrokenCall(board, c)
          IN /\ board' = res.board
             /\ last' = Outcome("probe", c, board, res)
    /\ probes' = probes + 1
    /\ UNCHANGED <<game, ply>>

NextBroken == BrokenPlay \/ BrokenProbe

SpecBroken == BrokenInit /\ [][NextBroken]_vars

\* games played with generated moves only
Next == Play \/ FreePlay

Spec == Init /\ [][Next]_vars

\* games in which a client also sends calls of its own making
NextCalls == Play \/ Probe

SpecCalls == Init /\ [][NextCalls]_vars

\* games played to mate or stalemate
NextEnd == PlayEnd

SpecEnd == Init /\ [][NextEnd]_vars

\* games in which the engine is asked for a move
NextSearch == Play \/ Search

SpecSearch == Init /\ [][NextSearch]_vars

(***************************************************************************)
(* Boards as Python objects.  A ChessBoard holds references to its grid    *)
(* (a list of eight row lists of Piece objects or None), its move_history  *)
(* list, its kings dict and its castling_rights dict of two dicts; the     *)
(* other fields are immutable values.  The heap is a sequence of cells, a  *)
(* reference is an index into it and NoRef stands for None in a row.       *)
(***************************************************************************)
NoRef == 0

Deref(h, ref) ==
    IF ref = NoRef THEN Empty
    ELSE [type |-> h[ref].type, color |-> h[ref].color, has_moved |-> h[ref].has_moved]

\* the reference stored in self.board[row][col]
RefAt(h, o, row, col) == h[h[h[o].board].items[row + 1]].items[col + 1]

\* the position an object holds, as the rules read it
View(h, o) ==
    LET rights == h[h[o].castling_rights].map
    IN [board |-> [r \in Rows |-> [c \in Rows |-> Deref(h, RefAt(h, o, r, c))]],
        current_player |-> h[o].current_player,
        move_history |-> h[h[o].move_history].items,
        kings |-> h[h[o].kings].map,
        en_passant_target |-> h[o].en_passant_target,
        castling_rights |-> [white |-> h[rights[WHITE]].map,
                             black |-> h[rights[BLACK]].map],
        halfmove_clock |-> h[o].halfmove_clock,
        fullmove_number |-> h[o].fullmove_number]

\* the mutable objects an object reaches: itself, its lists and dicts and
\* its pieces
Reach(h, o) ==
    {o, h[o].board, h[o].move_history, h[o].kings, h[o].castling_rights}
    \cup Range(h[h[o].board].items)
    \cup Range(h[h[o].castling_rights].map)
    \cup ({RefAt(h, o, row, col) : row \in Rows, col \in Rows} \ {NoRef})

\* the cells of a new object holding position b, allocated after n cells;
\* refs[k + 1] is the reference put on square k
BoardCells(n, b, refs) ==
    << [kind |-> "ChessBoard", board |-> n + 2,
        current_player |-> b.current_player,
        move_history |-> n + 11, kings |-> n + 12,
        en_passant_target |-> b.en_passant_target,
        castling_rights |-> n + 13,
        halfmove_clock |-> b.halfmove_clock,
        fullmove_number |-> b.fullmove_number],
       [kind |-> "list", items |-> << >> \o [r \in 1..8 |-> n + 2 + r]] >>
    \o [r \in 1..8 |->
           [kind |-> "list",
            items |-> SubSeq(refs, 8 * r - 7, 8 * r)]]
    \o << [kind |-> "list", items |-> b.move_history],
          [kind |-> "dict", map |-> b.kings],
          [kind |-> "dict", map |-> [white |-> n + 14, black |-> n + 15]],
          [kind |-> "dict", map |-> b.castling_rights[WHITE]],
          [kind |-> "dict", map |-> b.castling_rights[BLACK]] >>

\* the squares of b that hold a piece, in row-major order
OccupiedSquares(b) ==
    SelectSeq(<< >> \o [k \in 1..64 |-> k - 1],
              LAMBDA k : b.board[k \div 8][k % 8] /= Empty)

\* Piece(type, color, has_moved) for every occupied square
PieceCells(b) ==
    LET occ == OccupiedSquares(b)
    IN << >> \o [i \in 1..Len(occ) |->
                    [kind |-> "Piece"] @@ b.board[occ[i] \div 8][occ[i] % 8]]

\* the place of square k among the occupied squares
PieceRank(b, k) ==
    Cardinality({j \in 0..k : b.board[j \div 8][j % 8] /= Empty})

\* ChessBoard(): a new object in the starting position
HeapNew(h) ==
    LET n == Len(h)
        refs == << >> \o [k \in 1..64 |->
                    IF NewBoard.board[(k - 1) \div 8][(k - 1) % 8] = Empty THEN NoRef
                    ELSE n + 15 + PieceRank(NewBoard, k - 1)]
    IN h \o BoardCells(n, NewBoard, refs) \o PieceCells(NewBoard)

\* a copy that puts the pieces of the original on its own grid
CopiedPiece_shared(fresh, old) == old

\* new_board.board[row][col] = Piece(piece.type, piece.color, piece.has_moved)
CopiedPiece(fresh, old) == fresh

\* ChessBoard.copy(): the heap after the call; the copy is the object at
\* Len(h) + 1
copy(h, o) ==
    LET n == Len(h)
        b == View(h, o)
        old(k) == RefAt(h, o, k \div 8, k % 8)
        refs == << >> \o [k \in 1..64 |->
                    IF old(k - 1) = NoRef THEN NoRef
                    ELSE CopiedPiece(n + 15 + PieceRank(b, k - 1), old(k - 1))]
    IN h \o BoardCells(n, b, refs) \o PieceCells(b)

\* self.board[row][col] = ref, on the row list the object refers to
SetItem(h, o, row, col, ref) ==
    [h EXCEPT ![h[h[o].board].items[row + 1]].items[col + 1] = ref]

\* piece.has_moved = True, on the Piece object itself
SetMoved(h, ref) == [h EXCEPT ![ref].has_moved = TRUE]

\* the assignments of a castling to the grid, up to rook.has_moved = True
\* on a rook that may be None
HeapCastle(h, o, from_row, from_col, to_row, to_col, rook_col, rook_new_col) ==
    LET piece == RefAt(h, o, from_row, from_col)
        h1 == SetItem(h, o, to_row, to_col, piece)
        h2 == SetItem(h1, o, from_row, from_col, NoRef)
        rook == RefAt(h2, o, from_row, rook_col)
        h3 == SetItem(h2, o, from_row, rook_new_col, rook)
        h4 == SetItem(h3, o, from_row, rook_col, NoRef)
        h5 == SetMoved(h4, piece)
    IN IF rook = NoRef THEN h5 ELSE SetMoved(h5, rook)

\* the assignments of _make_special_move and _make_move_unchecked to the
\* grid and to the pieces
HeapGrid(h, o, c) ==
    LET piece == RefAt(h, o, c[1], c[2])
    IN IF c[5] = None
       THEN SetMoved(SetItem(SetItem(h, o, c[3], c[4], piece), o, c[1], c[2], NoRef),
                     piece)
       ELSE IF c[5] = "promotion"
       THEN SetItem(SetItem(Append(h, [kind |-> "Piece", type |-> c[6],
                                       color |-> h[piece].color, has_moved |-> TRUE]),
                            o, c[3], c[4], Len(h) + 1),
                    o, c[1], c[2], NoRef)
       ELSE IF c[5] = "en_passant"
       THEN SetMoved(SetItem(SetItem(SetItem(h, o, c[3], c[4], piece),
                                     o, c[1], c[2], NoRef),
                             o, c[1], c[4], NoRef),
                     piece)
       ELSE IF c[5] = "kingside_castle"
       THEN HeapCastle(h, o, c[1], c[2], c[3], c[4], 7, 5)
       ELSE IF c[5] = "queenside_castle"
       THEN HeapCastle(h, o, c[1], c[2], c[3], c[4], 0, 3)
       ELSE h

\* the fields make_move assigns on the object and the items it sets in the
\* move_history list, the kings dict and the two castling_rights dicts
HeapFields(h, o, b) ==
    [h EXCEPT ![o].current_player = b.current_player,
              ![o].en_passant_target = b.en_passant_target,
              ![o].halfmove_clock = b.halfmove_clock,
              ![o].fullmove_number = b.fullmove_number,
              ![h[o].move_history].items = b.move_history,
              ![h[o].kings].map = b.kings,
              ![h[h[o].castling_rights].map[WHITE]].map = b.castling_rights[WHITE],
              ![h[h[o].castling_rights].map[BLACK]].map = b.castling_rights[BLACK]]

\* make_move on the object o: what it returns and the heap it leaves
HeapMove(h, o, c) ==
    The(UNION {{[ok |-> res.ok, raised |-> res.raised,
                 heap |-> IF res.ok \/ res.raised
                          THEN HeapFields(HeapGrid(h, o, c), o, res.board)
                          ELSE h] :
                    res \in {Call(b, c)}} :
               b \in {View(h, o)}})

(***************************************************************************)
(* A board and a copy of it, both played on.  board holds the heap, the    *)
(* original, the copy once it is taken and the number of moves the         *)
(* original had made by then; ply counts the moves of the original and     *)
(* probes those of the copy.  last.pre is the position of the object the   *)
(* step acted on and last.other the position of the other one, both before *)
(* the step.                                                               *)
(***************************************************************************)
\* recorded games with a castling, a promotion and an en passant capture
CopyGames == <<PawnAttackGame, EnPassantGame>>

HeapOutcome(op, c, pre, other, res) ==
    [op |-> op, call |-> c, ok |-> res.ok, raised |-> res.raised, pre |-> pre,
     other |-> other, result |-> NoMove]

CopyInit ==
    /\ board = [heap |-> HeapNew(<< >>), original |-> 1, copied |-> NoRef, taken |-> 0]
    /\ game = 0
    /\ ply = 0
    /\ probes = 0
    /\ last = [op |-> "new", call |-> << >>, ok |-> FALSE, raised |-> FALSE,
               pre |-> NewBoard, other |-> NewBoard, result |-> NoMove]

\* the position of the copy, or of the original while there is no copy
OtherView(s) ==
    IF s.copied = NoRef THEN View(s.heap, s.original) ELSE View(s.heap, s.copied)

\* the next recorded call, made on the original
PlayOriginal ==
    \E g \in 1..Len(CopyGames) :
        /\ game = g \/ (game = 0 /\ ply = 0 /\ probes = 0)
        /\ ply < Len(CopyGames[g])
        /\ LET c == CopyGames[g][ply + 1]
               res == HeapMove(board.heap, board.original, c)
           IN /\ board' = [board EXCEPT !.heap = res.heap]
              /\ last' = HeapOutcome("make_move", c, View(board.heap, board.original),
                                     OtherView(board), res)
        /\ game' = g
        /\ ply' = ply + 1
        /\ UNCHANGED probes

\* copy = original.copy()
TakeCopy ==
    /\ board.copied = NoRef
    /\ board' = [board EXCEPT !.heap = copy(board.heap, board.original),
                              !.copied = Len(board.heap) + 1,
                              !.taken = ply]
    /\ last' = [op |-> "copy", call |-> << >>, ok |-> FALSE, raised |-> FALSE,
                pre |-> View(board.heap, board.original),
                other |-> View(board.heap, board.original), result |-> NoMove]
    /\ UNCHANGED <<game, ply, probes>>

\* the next recorded call after those the copy has inherited and made, made
\* on the copy
PlayCopy ==
    \E g \in 1..Len(CopyGames) :
        /\ game = g \/ (game = 0 /\ ply = 0 /\ probes = 0)
        /\ board.copied /= NoRef
        /\ board.taken + probes < Len(CopyGames[g])
        /\ LET c == CopyGames[g][board.taken + probes + 1]
               res == HeapMove(board.heap, board.copied, c)
           IN /\ board' = [board EXCEPT !.heap = res.heap]
              /\ last' = HeapOutcome("copy_move", c, View(board.heap, board.copied),
                                     View(board.heap, board.original), res)
        /\ game' = g
        /\ probes' = probes + 1
        /\ UNCHANGED ply

NextCopy == PlayOriginal \/ TakeCopy \/ PlayCopy

SpecCopy == CopyInit /\ [][NextCopy]_vars

(***************************************************************************)
(* RLEnhancedMCTS of src/engines/rl_mcts.py.  An engine is the record of   *)
(* its fields.  data_recorder is None or a GameDataRecorder, whose writes  *)
(* go to a database and can raise; position_history is a deque of at most  *)
(* HistoryMax records, each with the key result once it has been labelled. *)
(***************************************************************************)
Recorder == "recorder"
GameId == "game"
HistoryMax == 100
LabelledPositions == 10

RLEnhancedMCTS(data_recorder) ==
    [data_recorder |-> data_recorder,
     position_history |-> << >>,
     current_game_id |-> None,
     move_number |-> 0]

\* deque.append on a deque with maxlen
DequeAppend(d, x) ==
    IF Len(d) >= HistoryMax THEN Tail(d) \o <<x>> ELSE Append(d, x)

start_game_recording(e, sink_fails) ==
    IF e.data_recorder = None THEN [engine |-> e, raised |-> FALSE]
    ELSE IF sink_fails THEN [engine |-> e, raised |-> TRUE]
    ELSE [engine |-> [e EXCEPT !.current_game_id = GameId,
                               !.move_number = 0,
                               !.position_history = << >>],
          raised |-> FALSE]

\* board.to_dict() reads piece.type.value of every piece
\* the members of the PieceType enumeration
PieceTypes == {"P", "R", "N", "B", "Q", "K"}

to_dict_raises(b) ==
    \E row \in Rows, col \in Rows :
        b.board[row][col] /= Empty /\ b.board[row][col].type \notin PieceTypes

\* the fields of json.dumps(board.to_dict()) that are not functions of the
\* others
to_dict(b) ==
    [board |-> b.board,
     current_player |-> b.current_player,
     move_history |-> b.move_history,
     kings |-> b.kings,
     castling_rights |-> b.castling_rights,
     en_passant_target |-> b.en_passant_target,
     halfmove_clock |-> b.halfmove_clock,
     fullmove_number |-> b.fullmove_number]

\* the guard of the recording in search and in record_game_outcome
IsRecording(e) == e.data_recorder /= None /\ e.current_game_id /= None

\* what leaves the try block around the recording in search
RecordingError_propagates(raised) == raised

RecordingError(raised) == FALSE

\* the recording block of search: the record is appended before the recorder
\* is called
RecordPosition(e, b, sink_fails) ==
    IF ~IsRecording(e) THEN [engine |-> e, raised |-> FALSE]
    ELSE IF to_dict_raises(b) THEN [engine |-> e, raised |-> RecordingError(TRUE)]
    ELSE [engine |->
            [e EXCEPT !.position_history =
                DequeAppend(@, [game_id |-> e.current_game_id,
                                move_number |-> e.move_number,
                                position |-> to_dict(b),
                                player |-> b.current_player,
                                result |-> None])],
          raised |-> RecordingError(sink_fails)]

\* _find_checkmate_move inside its try block: the first move that mates, none
\* if a make_move raises before one is found
RECURSIVE FindCheckmateMove(_, _, _)
FindCheckmateMove(b, moves, i) ==
    IF i > Len(moves) THEN NoMove
    ELSE LET temp == make_move(b, moves[i][1], moves[i][2], moves[i][3], moves[i][4],
                               None, None)
         IN IF temp.raised THEN NoMove
            ELSE IF temp.ok /\ is_checkmate(temp.board) THEN moves[i]
            ELSE FindCheckmateMove(b, moves, i + 1)

SimplePieceValue(type) ==
    IF type = "K" THEN 100 ELSE PieceValue(type)

\* _simple_move_score without its random term, which is below 0.5
simple_move_score(b, move) ==
    LET target == b.board[move[3]][move[4]]
        piece == b.board[move[1]][move[2]]
    IN (IF target /= Empty THEN SimplePieceValue(target.type) * 10 ELSE 0)
       + (IF <<move[3], move[4]>> \in {<<3, 3>>, <<3, 4>>, <<4, 3>>, <<4, 4>>} THEN 5
          ELSE IF 2 <= move[3] /\ move[3] <= 5 /\ 2 <= move[4] /\ move[4] <= 5 THEN 2
          ELSE 0)
       + (IF piece /= Empty /\ ~piece.has_moved /\ piece.type \in {"N", "B"} THEN 3 ELSE 0)

\* _simple_move_score reads target.type.value and piece.type.value
ScoreRaises(b, move) ==
    LET target == b.board[move[3]][move[4]]
        piece == b.board[move[1]][move[2]]
    IN \/ target /= Empty /\ target.type = None
       \/ piece /= Empty /\ ~piece.has_moved /\ piece.type = None

\* the moves the selection after the mate scan can return: the scores differ
\* by whole points and the random term decides between equal ones
SelectByScore(b, legal_moves) ==
    IF \E k \in DOMAIN legal_moves : ScoreRaises(b, legal_moves[k])
    THEN {legal_moves[1]}
    ELSE {legal_moves[k] : k \in
            {k \in DOMAIN legal_moves :
                \A j \in DOMAIN legal_moves :
                    simple_move_score(b, legal_moves[j])
                        <= simple_move_score(b, legal_moves[k])}}

\* RLEnhancedMCTS.search: the engine it leaves, whether it raised and the
\* moves it can return
rl_search(e, b, sink_fails) ==
    LET recorded == RecordPosition(e, b, sink_fails)
        legal_moves == get_all_legal_moves(b)
        checkmate_move == FindCheckmateMove(b, legal_moves, 1)
    IN [engine |-> recorded.engine,
        raised |-> recorded.raised,
        moves |-> IF recorded.raised THEN {NoMove}
                  ELSE IF Len(legal_moves) = 0 THEN {NoMove}
                  ELSE IF checkmate_move /= NoMove THEN {checkmate_move}
                  ELSE SelectByScore(b, legal_moves)]

\* the result strings with 'wins' and with 'loses' in them, among those the
\* callers pass: the values of GameResult and "expired"
Results == {"white_wins", "black_wins", "draw", "in_progress", "expired"}
ResultsWithWins == {"white_wins", "black_wins"}
ResultsWithLoses == {}

ResultValue(result) ==
    IF result \in ResultsWithWins THEN "good"
    ELSE IF result \in ResultsWithLoses THEN "bad"
    ELSE "neutral"

\* record_game_outcome: nothing is labelled if the recorder raises
record_game_outcome(e, result, final_board, sink_fails) ==
    IF IsRecording(e) /\ (to_dict_raises(final_board) \/ sink_fails)
    THEN [engine |-> e, raised |-> TRUE]
    ELSE LET history == e.position_history
             labelled ==
                 << >> \o [k \in 1..Len(history) |->
                     IF k > Len(history) - LabelledPositions
                     THEN [history[k] EXCEPT !.result = ResultValue(result)]
                     ELSE history[k]]
         IN [engine |-> [e EXCEPT !.position_history = labelled],
             raised |-> FALSE]

\* _get_rl_move_value, in tenths.  RlMoveScore is the value before the
\* position history is looked at: centre control, development, capture and
\* king safety.
RlCaptureValue(type) ==
    CASE type = "P" -> 1 [] type = "N" -> 3 [] type = "B" -> 3
      [] type = "R" -> 5 [] type = "Q" -> 9 [] OTHER -> 0

RlMoveScore(b, move) ==
    LET from_row == move[1]
        from_col == move[2]
        to_row == move[3]
        to_col == move[4]
        piece == b.board[from_row][from_col]
        target == b.board[to_row][to_col]
        total_pieces == Cardinality({sq \in Rows \X Rows : b.board[sq[1]][sq[2]] /= Empty})
    IN (IF <<to_row, to_col>> \in {<<3, 3>>, <<3, 4>>, <<4, 3>>, <<4, 4>>} THEN 3
        ELSE IF to_row \in 2..5 /\ to_col \in 2..5 THEN 1
        ELSE 0)
       + (IF piece /= Empty /\ ~piece.has_moved /\ piece.type \in {"N", "B"} THEN 2 ELSE 0)
       + (IF target /= Empty THEN RlCaptureValue(target.type) ELSE 0)
       - (IF /\ piece /= Empty /\ piece.type = "K"
             /\ total_pieces > 20
             /\ to_row \in 2..5 /\ to_col \in 2..5
          THEN 4 ELSE 0)

\* the last n elements of a sequence, all of them if it has fewer
LastOf(s, n) == SubSeq(s, Max(1, Len(s) - n + 1), Len(s))

\* what the labels of the given positions add: 1 for 'good', -1 for 'bad'
LabelValue(positions) ==
    Cardinality({k \in DOMAIN positions : positions[k].result = "good"})
    - Cardinality({k \in DOMAIN positions : positions[k].result = "bad"})

get_rl_move_value(e, b, move) ==
    Max(-10, Min(10, RlMoveScore(b, move)
                     + (IF Len(e.position_history) > 5
                        THEN LabelValue(LastOf(e.position_history, 5))
                        ELSE 0)))

(***************************************************************************)
(* A GameSession of src/session/game_session.py that uses the RL engine:   *)
(* the record of its board and its engine.  Here the engine is built with  *)
(* or without a recorder; the one the session builds itself has none.      *)
(***************************************************************************)
FoolGame ==
    << <<6, 5, 5, 5, "none", "none">>, <<1, 4, 3, 4, "none", "none">>,
       <<6, 6, 4, 6, "none", "none">>, <<0, 3, 4, 7, "none", "none">> >>

RlGames == <<ScholarGame, FoolGame>>

MaxRecorded == 1

RlLast(op, pre, raised, result, sink_fails, outcome) ==
    [op |-> op, pre |-> pre, raised |-> raised, result |-> result,
     sink_fails |-> sink_fails, outcome |-> outcome, value |-> 0]

\* the game of the session is over
RlFinished == last.op \in {"finish_game", "get_rl_move_value"}

RlInit ==
    /\ \E data_recorder \in {None, Recorder} :
          board = [board |-> NewBoard, engine |-> RLEnhancedMCTS(data_recorder)]
    /\ game = 0
    /\ ply = 0
    /\ probes = 0
    /\ last = RlLast("new", board, FALSE, NoMove, FALSE, None)

\* GameSession.enable_rl_enhancement, as create_session calls it on the new
\* session: the engine starts a recording
RlEnable ==
    /\ last.op = "new"
    /\ \E sink_fails \in BOOLEAN :
          LET res == start_game_recording(board.engine, sink_fails)
          IN /\ board' = [board EXCEPT !.engine = res.engine]
             /\ last' = RlLast("enable_rl_enhancement", board, res.raised, NoMove,
                               sink_fails, None)
    /\ UNCHANGED <<game, ply, probes>>

\* GameSession.make_move with the next recorded call of a game
RlPlay ==
    \E g \in 1..Len(RlGames) :
        /\ game = g \/ (game = 0 /\ ply = 0)
        /\ ~RlFinished
        /\ ply < Len(RlGames[g])
        /\ LET res == Call(board.board, RlGames[g][ply + 1])
           IN /\ board' = [board |-> res.board,
                           engine |-> IF res.ok
                                      THEN [board.engine EXCEPT !.move_number = @ + 1]
                                      ELSE board.engine]
              /\ last' = RlLast("make_move", board, res.raised, NoMove, FALSE, None)
        /\ game' = g
        /\ ply' = ply + 1
        /\ UNCHANGED probes

\* engine.search(session.board)
RlSearch ==
    /\ probes < MaxRecorded
    /\ ~RlFinished
    /\ \E sink_fails \in BOOLEAN :
          \E res \in {rl_search(board.engine, board.board, sink_fails)} :
             \E move \in res.moves :
                /\ board' = [board EXCEPT !.engine = res.engine]
                /\ last' = RlLast("search", board, res.raised, move, sink_fails, None)
    /\ probes' = probes + 1
    /\ UNCHANGED <<game, ply>>

\* GameSession.finish_game with the result of a finished game, or with
\* "expired" when the session is cleaned up; the session is not used after it
RlFinish ==
    /\ ~RlFinished
    /\ \E result \in ({get_game_result(board.board)} \ {"in_progress"}) \cup {"expired"} :
          \E sink_fails \in BOOLEAN :
             LET res == record_game_outcome(board.engine, result, board.board, sink_fails)
             IN /\ board' = [board EXCEPT !.engine = res.engine]
                /\ last' = RlLast("finish_game", board, res.raised, NoMove, sink_fails, result)
    /\ UNCHANGED <<game, ply, probes>>

\* _get_rl_move_value for a move of the session's position or of the
\* starting position of the next game, with the history the finished game
\* has left
RlMoveValue ==
    /\ last.op = "finish_game"
    /\ \E b \in {IF is_terminal(board.board) THEN NewBoard ELSE board.board} :
          \E move \in Range(get_all_legal_moves(b)) :
             last' = [RlLast("get_rl_move_value", [board EXCEPT !.board = b], FALSE,
                             move, FALSE, None)
                        EXCEPT !.value = get_rl_move_value(board.engine, b, move)]
    /\ UNCHANGED <<board, game, ply, probes>>

NextRl == RlEnable \/ RlPlay \/ RlSearch \/ RlFinish \/ RlMoveValue

SpecRl == RlInit /\ [][NextRl]_vars

(***************************************************************************)
(* GameSession.get_ai_move, of src/main.py and src/session/game_session.py,*)
(* on a session with the ChessMCTS engine: the record of its board and its *)
(* mode.                                                                   *)
(***************************************************************************)
HUMAN_VS_AI == "human_vs_ai"
HUMAN_VS_HUMAN == "human_vs_human"

GameSession(mode) == [board |-> NewBoard, mode |-> mode]

\* the moves get_ai_move can return, NoMove for None
get_ai_move(s, simulations) ==
    IF s.mode = HUMAN_VS_AI /\ s.board.current_player = BLACK
    THEN search(s.board, simulations)
    ELSE {NoMove}

AiLast(op, pre, result) == [op |-> op, pre |-> pre, result |-> result]

AiInit ==
    /\ \E mode \in {HUMAN_VS_AI, HUMAN_VS_HUMAN} : board = GameSession(mode)
    /\ game = 0
    /\ ply = 0
    /\ probes = 0
    /\ last = AiLast("new", board, NoMove)

\* GameSession.make_move with the next recorded call of a game
AiPlay ==
    \E g \in 1..Len(Games) :
        /\ game = g \/ (game = 0 /\ ply = 0)
        /\ ply < Len(Games[g])
        /\ LET res == Call(board.board, Games[g][ply + 1])
           IN /\ board' = [board EXCEPT !.board = res.board]
              /\ last' = AiLast("make_move", board, NoMove)
        /\ game' = g
        /\ ply' = ply + 1
        /\ UNCHANGED probes

\* the client asks for the engine's move, once in a position
GetAiMove ==
    /\ last.op /= "get_ai_move"
    /\ \E simulations \in 1..MaxSimulations :
          \E move \in get_ai_move(board, simulations) :
             last' = AiLast("get_ai_move", board, move)
    /\ UNCHANGED <<board, game, ply, probes>>

NextAi == AiPlay \/ GetAiMove

SpecAi == AiInit /\ [][NextAi]_vars

(***************************************************************************)
(* ChessMCTS.search of src/main.py and src/engines/mcts.py, step by step   *)
(* and on the heap.  The board it is given is an object of the heap and    *)
(* every temp_board, new_board and playout board is the object a copy()    *)
(* adds; a board no variable refers to any more is dropped from the heap.  *)
(* The clock is counted in ticks and a playout draws its random choices    *)
(* from a seed.                                                            *)
(***************************************************************************)
SimulationDepthLimit == 80
MaxDepth == 1
TimeLimit == 2
PlayoutSeeds == 2

\* the board a move is tried on: a copy of the board, not the board itself
ScratchCopy_same_board(h, o) == [heap |-> h, ref |-> o]

\* temp_board = board.copy(), new_board = node.board.copy() and the
\* node.board.copy() passed to _simulate
ScratchCopy(h, o) == [heap |-> copy(h, o), ref |-> Len(h) + 1]

\* what is left of the heap h when the objects added after its first n cells
\* are no longer referred to
Drop(h, n) == SubSeq(h, 1, n)

\* make_move(move[0], move[1], move[2], move[3])
CallOfSquares(move) == <<move[1], move[2], move[3], move[4], None, None>>

\* make_move with move[4] when the tuple has one
CallOfMove(move) ==
    <<move[1], move[2], move[3], move[4], IF Len(move) > 4 THEN move[5] ELSE None, None>>

\* the methods that read a board, called on the object o
HeapLegalMoves(h, o) == The({get_all_legal_moves(b) : b \in {View(h, o)}})
HeapIsCheckmate(h, o) == The({is_checkmate(b) : b \in {View(h, o)}})
HeapIsTerminal(h, o) == The({is_terminal(b) : b \in {View(h, o)}})

\* temp_board = board.copy(); temp_board.make_move(...), after which nothing
\* refers to temp_board: what make_move returned, whether the move mated and
\* the heap that is left
TryOnCopy(h, o, c) ==
    The(UNION {{[ok |-> res.ok, raised |-> res.raised,
                 mate |-> res.ok /\ ~res.raised
                          /\ HeapIsCheckmate(res.heap, temp_board.ref),
                 heap |-> Drop(res.heap, Len(h))] :
                    res \in {HeapMove(temp_board.heap, temp_board.ref, c)}} :
               temp_board \in {ScratchCopy(h, o)}})

\* the mate-in-one scan of search: the heap it leaves, the first mating move
\* if there is one, and whether a make_move raised
RECURSIVE ScanForMate(_, _, _, _)
ScanForMate(h, o, moves, i) ==
    IF i > Len(moves) THEN [heap |-> h, move |-> NoMove, raised |-> FALSE]
    ELSE The({IF tried.raised
              THEN [heap |-> tried.heap, move |-> NoMove, raised |-> TRUE]
              ELSE IF tried.mate
              THEN [heap |-> tried.heap, move |-> moves[i], raised |-> FALSE]
              ELSE ScanForMate(tried.heap, o, moves, i + 1) :
                 tried \in {TryOnCopy(h, o, CallOfSquares(moves[i]))}})

\* untried_moves of a new node: the legal moves, highest priority first
UntriedMoves(b) ==
    The(UNION {{ << >> \o [i \in 1..Len(items) |-> SortByPriority(items)[i].move] :
                    items \in {<< >> \o [i \in 1..Len(legal_moves) |->
                                 [move |-> legal_moves[i],
                                  prio |-> get_move_priority(b, legal_moves[i])]]}} :
               legal_moves \in {get_all_legal_moves(b)}})

\* MCTSNode(board, move, parent); parent is an index in the list of nodes,
\* 0 for the root, and children are indices too; wins counts half points
MCTSNode(h, ref, move, parent) ==
    The({[board |-> ref, move |-> move, parent |-> parent, children |-> << >>,
          visits |-> 0, wins |-> 0, untried_moves |-> UntriedMoves(b)] :
            b \in {View(h, ref)}})

is_fully_expanded(node) == Len(node.untried_moves) = 0

\* the k-th element, counting from 0, of a set of numbers
Nth(S, k) == CHOOSE i \in S : Cardinality({j \in S : j < i}) = k

\* the selection loop of _select_and_expand from node n at current_depth: the
\* node it stops at and its depth.  Which child has the best UCB1 value
\* depends on the results of the playouts; the seed decides.
RECURSIVE SelectNode(_, _, _, _, _)
SelectNode(h, nodes, n, current_depth, seed) ==
    IF /\ is_fully_expanded(nodes[n])
       /\ current_depth < MaxDepth
       /\ ~HeapIsTerminal(h, nodes[n].board)
       /\ Len(nodes[n].children) > 0
    THEN SelectNode(h, nodes,
                    nodes[n].children[(seed % Len(nodes[n].children)) + 1],
                    current_depth + 1, seed)
    ELSE [node |-> n, depth |-> current_depth]

\* _select_and_expand(root, depth): the heap and the nodes it leaves and the
\* node it returns; ExpandNode is its part after the selection loop
RECURSIVE select_and_expand(_, _, _, _, _)
RECURSIVE ExpandNode(_, _, _, _, _)
ExpandNode(h, nodes, n, current_depth, seed) ==
    IF current_depth >= MaxDepth THEN [heap |-> h, nodes |-> nodes, node |-> n]
    ELSE IF ~is_fully_expanded(nodes[n]) /\ ~HeapIsTerminal(h, nodes[n].board)
    THEN The(UNION {{
            IF res.ok /\ ~res.raised
            THEN [heap |-> res.heap,
                  nodes |-> Append([nodes EXCEPT ![n].untried_moves = Tail(@),
                                                 ![n].children = Append(@, Len(nodes) + 1)],
                                   MCTSNode(res.heap, new_board.ref,
                                            nodes[n].untried_moves[1], n)),
                  node |-> Len(nodes) + 1]
            ELSE IF Len(nodes[n].untried_moves) > 1
            THEN select_and_expand(Drop(res.heap, Len(h)),
                                   [nodes EXCEPT ![n].untried_moves = Tail(@)],
                                   n, current_depth, seed)
            ELSE [heap |-> Drop(res.heap, Len(h)),
                  nodes |-> [nodes EXCEPT ![n].untried_moves = Tail(@)],
                  node |-> n] :
               res \in {HeapMove(new_board.heap, new_board.ref,
                                 CallOfMove(nodes[n].untried_moves[1]))}} :
            new_board \in {ScratchCopy(h, nodes[n].board)}})
    ELSE [heap |-> h, nodes |-> nodes, node |-> n]

select_and_expand(h, nodes, root, depth, seed) ==
    The({ExpandNode(h, nodes, selected.node, selected.depth, seed) :
            selected \in {SelectNode(h, nodes, root, depth, seed)}})

\* how _select_simulation_move sorts a move of board b
SimulationClass(b, move) ==
    The({IF ~temp.ok \/ temp.raised THEN "skipped"
         ELSE IF is_checkmate(temp.board) THEN "checkmate"
         ELSE IF is_in_check(temp.board, Opponent(b.current_player)) THEN "check"
         ELSE IF b.board[move[3]][move[4]] /= Empty THEN "capture"
         ELSE IF get_move_priority(b, move) > 100 THEN "tactical"
         ELSE "normal" :
            temp \in {EngineCall(b, move)}})

\* the indices of the moves _select_simulation_move can return on board b:
\* a mating move if there is one; else a checking move, a capture, a move
\* of priority above 100 when there is neither, or a normal move, as its
\* random number falls; the first move when no normal move is left
SimulationMoves(b, moves) ==
    The({LET all == 1..Len(moves)
             checkmate_moves == {i \in all : class[i] = "checkmate"}
             check_moves == {i \in all : class[i] = "check"}
             capture_moves == {i \in all : class[i] = "capture"}
             tactical_moves == {i \in all : class[i] = "tactical"}
             normal_moves == {i \in all : class[i] = "normal"}
         IN IF checkmate_moves /= {} THEN checkmate_moves
            ELSE check_moves \cup capture_moves
                 \cup (IF check_moves = {} /\ capture_moves = {}
                       THEN tactical_moves ELSE {})
                 \cup (IF normal_moves /= {} THEN normal_moves ELSE {1}) :
            class \in {<< >> \o [i \in 1..Len(moves) |-> SimulationClass(b, moves[i])]}})

\* the loop of _simulate(board, 0), which plays on the board it is given:
\* the heap it leaves; SimulateOn is a pass of it on the position b of o
RECURSIVE simulate(_, _, _, _)
RECURSIVE SimulateOn(_, _, _, _, _)
SimulateOn(h, o, seed, simulation_moves, b) ==
    IF \/ simulation_moves >= SimulationDepthLimit
       \/ simulation_moves >= MaxDepth * 2
       \/ is_draw_by_fifty_moves(b) \/ is_insufficient_material(b)
       \/ is_checkmate(b) \/ is_stalemate(b)
    THEN h
    ELSE The({IF Len(moves) = 0 THEN h
              ELSE The(UNION {{
                      IF res.raised \/ ~res.ok THEN res.heap
                      ELSE simulate(res.heap, o, seed, simulation_moves + 1) :
                         res \in {HeapMove(h, o, CallOfMove(
                                    moves[Nth(candidates,
                                              (seed + simulation_moves)
                                                 % Cardinality(candidates))]))}} :
                      candidates \in {SimulationMoves(b, moves)}}) :
                 moves \in {get_all_legal_moves(b)}})

simulate(h, o, seed, simulation_moves) ==
    The({SimulateOn(h, o, seed, simulation_moves, b) : b \in {View(h, o)}})

\* what _evaluate_final_position can return for the board a playout has
\* left: the winner or 'draw' when the game is over, else what the score of
\* evaluate_position and a random number make of it
evaluate_final_position(b) ==
    The({IF game_result = "white_wins" THEN {WHITE}
         ELSE IF game_result = "black_wins" THEN {BLACK}
         ELSE IF game_result = "draw" THEN {"draw"}
         ELSE {WHITE, BLACK, "draw"} :
            game_result \in {get_game_result(b)}})

\* a backpropagation that credits the side to move in the node's position
backpropagate_leaf_only(h, nodes, n, result) ==
    IF n = 0 THEN nodes
    ELSE [nodes EXCEPT ![n].visits = @ + 1,
                       ![n].wins = IF result = "draw" THEN @ + 1 ELSE @]

RECURSIVE backpropagate_side_to_move(_, _, _, _)
backpropagate_side_to_move(h, nodes, n, result) ==
    IF n = 0 THEN nodes
    ELSE The({backpropagate_side_to_move(h, counted, nodes[n].parent, result) :
                counted \in {[nodes EXCEPT
                   ![n].visits = @ + 1,
                   ![n].wins =
                       IF result = "draw" THEN @ + 1
                       ELSE IF /\ nodes[n].move /= NoMove
                               /\ result = h[nodes[n].board].current_player
                       THEN @ + 2
                       ELSE @]}})

\* _backpropagate(node, result), from node n up to the root
RECURSIVE backpropagate(_, _, _, _)
backpropagate(h, nodes, n, result) ==
    IF n = 0 THEN nodes
    ELSE The({backpropagate(h, counted, nodes[n].parent, result) :
                counted \in {[nodes EXCEPT
                   ![n].visits = @ + 1,
                   ![n].wins =
                       IF result = "draw" THEN @ + 1
                       ELSE IF /\ nodes[n].move /= NoMove
                               /\ result = Opponent(h[nodes[n].board].current_player)
                       THEN @ + 2
                       ELSE @]}})

\* whether the score win_rate * 0.7 + visit_weight * 0.3 of a child with
\* visits v and wins w (in half points) is above that of a child with visits
\* u and wins x, when the most visited child has max_visits; both sides are
\* the scores times 20 * v * u * max_visits
ScoreAbove(v, w, u, x, max_visits) ==
    (7 * w * max_visits + 6 * v * v) * u > (7 * x * max_visits + 6 * u * u) * v

\* child.visits > max_visits * 0.7; the float product compares with a whole
\* number as 7 * max_visits / 10 does while max_visits is below 90
HighlyExplored(visits, max_visits) == visits * 10 > max_visits * 7

\* the children _select_best_move can return: the only one with more than
\* 0.7 of the most visits; else, of those with five visits or more, the
\* first with the highest score (rounding decides between equal scores);
\* else the first of the most visited
select_best_move(nodes, root) ==
    LET children == nodes[root].children
        all == 1..Len(children)
        visits(k) == nodes[children[k]].visits
        wins(k) == nodes[children[k]].wins
        max_visits == CHOOSE v \in {visits(k) : k \in all} : \A k \in all : visits(k) <= v
        highly_explored == {k \in all : HighlyExplored(visits(k), max_visits)}
        explored == {k \in all : visits(k) >= 5}
        best == {k \in explored :
                    \A j \in explored :
                       ~ScoreAbove(visits(j), wins(j), visits(k), wins(k), max_visits)}
    IN IF Cardinality(highly_explored) = 1 THEN {children[k] : k \in highly_explored}
       ELSE IF explored /= {} THEN {children[k] : k \in best}
       ELSE {children[Nth({k \in all : visits(k) = max_visits}, 0)]}

\* the fallback of search when the root has no child: the heap it leaves,
\* the moves make_move accepts on a copy, with their priorities, and whether
\* a make_move raised
RECURSIVE SafeMoves(_, _, _, _)
SafeMoves(h, o, moves, i) ==
    IF i > Len(moves) THEN [heap |-> h, moves |-> << >>, raised |-> FALSE]
    ELSE The({IF tried.raised
              THEN [heap |-> tried.heap, moves |-> << >>, raised |-> TRUE]
              ELSE The(UNION {{
                      [heap |-> rest.heap,
                       moves |-> (IF tried.ok
                                  THEN << [move |-> moves[i],
                                           prio |-> get_move_priority(b, moves[i])] >>
                                  ELSE << >>) \o rest.moves,
                       raised |-> rest.raised] :
                         rest \in {SafeMoves(tried.heap, o, moves, i + 1)}} :
                      b \in {View(tried.heap, o)}}) :
                 tried \in {TryOnCopy(h, o, CallOfSquares(moves[i]))}})

fallback_move(h, o) ==
    The(UNION {{[heap |-> safe.heap,
                 raised |-> safe.raised,
                 move |-> IF safe.raised \/ Len(moves) = 0 THEN NoMove
                          ELSE IF Len(safe.moves) > 0
                          THEN SortByPriority(safe.moves)[1].move
                          ELSE moves[1]] :
                    safe \in {SafeMoves(h, o, moves, 1)}} :
               moves \in {HeapLegalMoves(h, o)}})

\* the condition of the while loop of search
LoopGuard_inclusive(run) ==
    run.elapsed < TimeLimit /\ run.simulations <= MaxSimulations /\ ~run.max_time_reached

LoopGuard(run) ==
    run.elapsed < TimeLimit /\ run.simulations < MaxSimulations /\ ~run.max_time_reached

(***************************************************************************)
(* A session board and the searches run on it.  board holds the heap, the  *)
(* session's board object and the local variables of the search that is    *)
(* running: the position it was given (kept to state the contracts), the   *)
(* size of the heap when it was called, its nodes, root first, and its     *)
(* counters.  last holds what the last call returned.                      *)
(***************************************************************************)
\* a game that ends in mate after four moves, and one up to the position in
\* which White may castle
LoopGames == <<FoolGame, SubSeq(CastleGame, 1, 6)>>

Idle ==
    [running |-> FALSE, given |-> NewBoard, base |-> 0, nodes |-> << >>,
     simulations |-> 0, elapsed |-> 0, max_time_reached |-> FALSE]

\* the playout of a pass of the loop: the node it started from, the depth of
\* that node in the tree, the half-moves it made and its result
Playout(node, root_board, node_board, final_board, result) ==
    [node |-> node,
     depth |-> Len(node_board.move_history) - Len(root_board.move_history),
     moves |-> Len(final_board.move_history) - Len(node_board.move_history),
     result |-> result]

NoPlayout == [node |-> 0, depth |-> 0, moves |-> 0, result |-> None]

LoopLast(op, given, raised, result, simulations, visits) ==
    [op |-> op, given |-> given, raised |-> raised, result |-> result,
     simulations |-> simulations, visits |-> visits, playout |-> NoPlayout]

LoopInit ==
    /\ board = [heap |-> HeapNew(<< >>), original |-> 1, search |-> Idle]
    /\ game = 0
    /\ ply = 0
    /\ probes = 0
    /\ last = LoopLast("new", NewBoard, FALSE, NoMove, 0, 0)

\* the next recorded call of a game, made on the session board
LoopPlay ==
    \E g \in 1..Len(LoopGames) :
        /\ game = g \/ (game = 0 /\ ply = 0)
        /\ ~board.search.running
        /\ ply < Len(LoopGames[g])
        /\ LET res == HeapMove(board.heap, board.original, LoopGames[g][ply + 1])
           IN /\ board' = [board EXCEPT !.heap = res.heap]
              /\ last' = LoopLast("make_move", View(board.heap, board.original),
                                  res.raised, NoMove, 0, 0)
        /\ game' = g
        /\ ply' = ply + 1
        /\ UNCHANGED probes

\* search(board) up to its loop: it returns None or a mating move, or it
\* builds the root and starts the clock
StartSearch ==
    /\ ~board.search.running
    /\ last.op /= "search"
    /\ \E given \in {View(board.heap, board.original)} :
         \E legal_moves \in {get_all_legal_moves(given)} :
           \E scan \in {ScanForMate(board.heap, board.original, legal_moves, 1)} :
             IF Len(legal_moves) = 0
             THEN /\ last' = LoopLast("search", given, FALSE, NoMove, 0, 0)
                  /\ UNCHANGED board
             ELSE IF scan.raised \/ scan.move /= NoMove
             THEN /\ last' = LoopLast("search", given, scan.raised, scan.move, 0, 0)
                  /\ board' = [board EXCEPT !.heap = scan.heap]
             ELSE \E root_board \in {ScratchCopy(scan.heap, board.original)} :
                  /\ last' = LoopLast("search_started", given, FALSE, NoMove, 0, 0)
                  /\ board' = [board EXCEPT
                        !.heap = root_board.heap,
                        !.search = [running |-> TRUE, given |-> given,
                                    base |-> Len(board.heap),
                                    nodes |-> << MCTSNode(root_board.heap, root_board.ref,
                                                          NoMove, 0) >>,
                                    simulations |-> 0, elapsed |-> 0,
                                    max_time_reached |-> FALSE]]
    /\ UNCHANGED <<game, ply, probes>>

\* one pass of the loop: a node is selected or added, a playout is run from
\* a copy of its board, its result is counted up to the root; ticks of the
\* clock pass
Iterate ==
    /\ board.search.running
    /\ LoopGuard(board.search)
    /\ \E seed \in 0..(PlayoutSeeds - 1) :
         \E step \in {select_and_expand(board.heap, board.search.nodes, 1, 0, seed)} :
           \E playout_board \in {ScratchCopy(step.heap, step.nodes[step.node].board)} :
             \E played \in {simulate(playout_board.heap, playout_board.ref, seed, 0)} :
               \E result \in UNION {evaluate_final_position(b) :
                                       b \in {View(played, playout_board.ref)}} :
                 \E ticks \in 0..TimeLimit :
                    LET simulations == board.search.simulations + 1
                        elapsed == Min(board.search.elapsed + ticks, TimeLimit)
                    IN /\ board' = [board EXCEPT
                             !.heap = Drop(played, Len(step.heap)),
                             !.search.nodes =
                                 backpropagate(step.heap, step.nodes, step.node, result),
                             !.search.simulations = simulations,
                             !.search.elapsed = elapsed,
                             !.search.max_time_reached =
                                 simulations % 100 = 0 /\ elapsed * 10 > TimeLimit * 9]
                       /\ last' = [LoopLast("iterate", board.search.given, FALSE,
                                            NoMove, simulations, 0)
                                      EXCEPT !.playout =
                                         Playout(step.node, board.search.given,
                                                 View(step.heap, step.nodes[step.node].board),
                                                 View(played, playout_board.ref),
                                                 result)]
    /\ UNCHANGED <<game, ply, probes>>

\* the loop is over: search returns the move of the best child, or falls
\* back on the legal moves, and its boards are dropped
Finish ==
    /\ board.search.running
    /\ ~LoopGuard(board.search)
    /\ LET run == board.search
           root == run.nodes[1]
       IN IF Len(root.children) > 0
          THEN \E best_child \in select_best_move(run.nodes, 1) :
                 /\ board' = [board EXCEPT !.heap = Drop(@, run.base), !.search = Idle]
                 /\ last' = LoopLast("search", run.given, FALSE, run.nodes[best_child].move,
                                     run.simulations, root.visits)
          ELSE \E fallback \in {fallback_move(board.heap, board.original)} :
                  /\ board' = [board EXCEPT !.heap = Drop(fallback.heap, run.base),
                                            !.search = Idle]
                  /\ last' = LoopLast("search", run.given, fallback.raised, fallback.move,
                                      run.simulations, root.visits)
    /\ UNCHANGED <<game, ply, probes>>

NextLoop == LoopPlay \/ StartSearch \/ Iterate \/ Finish

SpecLoop == LoopInit /\ [][NextLoop]_vars

(***************************************************************************)
(* The contracts of the rules engine and of the search, as properties of   *)
(* the runs above.                                                         *)
(***************************************************************************)
Squares(c) == <<c[1], c[2], c[3], c[4]>>

\* the full move of a call: the promotion kind belongs to the move only
\* under the "promotion" marker
FullMove(c) ==
    <<c[1], c[2], c[3], c[4], c[5], IF c[5] = "promotion" THEN c[6] ELSE None>>

(* C1: a make_move call whose full move (squares, marker, promotion kind)  *)
(* get_piece_moves does not generate for the from-square returns False,    *)
(* raises nothing and leaves every field of the board as it was.           *)
C1_RejectsUngenerated ==
    (last.op = "probe" /\ FullMove(last.call) \notin GeneratedCalls(last.pre))
        => (~last.ok /\ ~last.raised /\ board = last.pre)

(* C2: on the board of chess_board_broken.py make_move succeeds only for   *)
(* (from, to) pairs that get_all_legal_moves() lists for the side to move. *)
C2_OnlyLegalMovesSucceed ==
    last.ok => Squares(last.call) \in Range(broken_get_all_legal_moves(last.pre))

(* C3: every tuple of get_all_legal_moves(), passed to make_move as it is  *)
(* returned (no marker, no promotion kind), is accepted and leaves the     *)
(* mover's king not in check.                                              *)
C3_LegalMovesApply ==
    \A move \in Range(get_all_legal_moves(board)) :
        LET res == make_move(board, move[1], move[2], move[3], move[4], None, None)
        IN res.ok /\ ~is_in_check(res.board, board.current_player)

\* a generated move, applied with its marker, that checkmates the opponent
Mates(b, c) ==
    LET res == Call(b, c)
    IN res.ok /\ is_checkmate(res.board)

(* C4: when some legal move of the side to move (a promotion, an en        *)
(* passant capture and a castling move included) checkmates the opponent,  *)
(* search returns the squares of a move that checkmates.                   *)
C4_MateInOneReturned ==
    (last.op = "search" /\ \E c \in GeneratedCalls(last.pre) : Mates(last.pre, c))
        => \E c \in GeneratedCalls(last.pre) :
               Squares(c) = last.result /\ Mates(last.pre, c)

(* C5: when the side to move has a legal move, search returns a move (not  *)
(* None) of a piece of the side to move that make_move accepts as returned.*)
C5_SearchMoveAccepted ==
    (last.op = "search" /\ Len(get_all_legal_moves(last.pre)) > 0)
        => /\ last.result /= NoMove
           /\ last.pre.board[last.result[1]][last.result[2]].color
                  = last.pre.current_player
           /\ make_move(last.pre, last.result[1], last.result[2], last.result[3],
                        last.result[4], None, None).ok

(* C6: search returns None whenever get_game_result() of the board it is   *)
(* given is not in_progress.                                               *)
C6_NoMoveWhenTerminal ==
    (last.op = "search" /\ get_game_result(last.pre) /= "in_progress")
        => last.result = NoMove

KingSquares(b, c) ==
    {q \in Rows \X Rows : b.board[q[1]][q[2]].type = "K" /\ b.board[q[1]][q[2]].color = c}

(* C7: on every board reached by successful make_move calls with generated *)
(* squares and markers the grid holds exactly one king of each colour, on  *)
(* the square kings records for that colour.                               *)
C7_OneKingEach ==
    \A c \in Colors : KingSquares(board, c) = {board.kings[c]}

\* both sides have castled
C7_Witness ==
    /\ last.ok
    /\ last.call[5] \in {"kingside_castle", "queenside_castle"}
    /\ board.kings[WHITE] \in {<<7, 6>>, <<7, 2>>}
    /\ board.kings[BLACK] \in {<<0, 6>>, <<0, 2>>}

(* C8: on the board of chess_board_broken.py, after a successful make_move *)
(* with a move of get_all_legal_moves(), in a game of such moves, the king *)
(* of the side that moved is not in check.                                 *)
C8_MoverNotInCheck ==
    (/\ last.op = "make_move"
     /\ last.ok
     /\ probes = 0
     /\ Squares(last.call) \in Range(broken_get_all_legal_moves(last.pre)))
        => ~broken_is_in_check(board, last.pre.current_player)

\* every recorded call of the games on that board is a listed move
BrokenGamesAreListed ==
    (last.op = "make_move" /\ probes = 0)
        => Squares(last.call) \in Range(broken_get_all_legal_moves(last.pre))

\* a piece of by_color could capture on the square: a pawn on either square
\* diagonally ahead of it, occupied or not
CouldCapture(b, by_color, row, col) ==
    \E r \in Rows, c \in Rows :
        LET piece == b.board[r][c]
        IN /\ piece /= Empty
           /\ piece.color = by_color
           /\ IF piece.type = "P"
              THEN row = r + PawnDirection(by_color) /\ Abs(col - c) = 1
              ELSE <<row, col>> \in Range(get_raw_piece_moves(b, r, c))

KingPath(from_col, to_col) ==
    IF to_col > from_col THEN from_col..to_col ELSE to_col..from_col

(* C9: no castling move is generated (and so none is accepted) while the   *)
(* king stands on, crosses or lands on a square an opposing piece could    *)
(* capture on.                                                             *)
C9_NoCastlingThroughAttack ==
    LET king == board.kings[board.current_player]
    IN \A move \in Range(get_piece_moves(board, king[1], king[2])) :
           (Len(move) > 2 /\ move[3] \in {"kingside_castle", "queenside_castle"})
               => \A col \in KingPath(king[2], move[2]) :
                      ~CouldCapture(board, Opponent(board.current_player), king[1], col)

HomeRow(c) == IF c = WHITE THEN 7 ELSE 0

UnmovedAt(b, type, c, col) == b.board[HomeRow(c)][col] = Piece(type, c, FALSE)

(* C10: after every successful make_move with generated squares and        *)
(* markers, a castling right of colour c implies c's unmoved king on its   *)
(* home square and c's unmoved rook on the home square of that wing.       *)
C10_RightsImplyUnmoved ==
    (last.op = "make_move" /\ last.ok)
        => \A c \in Colors :
              /\ board.castling_rights[c].kingside
                    => UnmovedAt(board, "K", c, 4) /\ UnmovedAt(board, "R", c, 7)
              /\ board.castling_rights[c].queenside
                    => UnmovedAt(board, "K", c, 4) /\ UnmovedAt(board, "R", c, 0)

(* C11: after any successful make_move that takes a pawn to row 0 or row 7 *)
(* the destination holds a piece of the mover's colour, has_moved true, of *)
(* the requested promotion kind, which is Queen, Rook, Bishop or Knight.   *)
C11_PromotionLeavesRequestedPiece ==
    (/\ last.op \in {"make_move", "probe"}
     /\ last.ok
     /\ last.pre.board[last.call[1]][last.call[2]].type = "P"
     /\ last.call[3] \in {0, 7})
        => LET piece == board.board[last.call[3]][last.call[4]]
           IN /\ piece.color = last.pre.current_player
              /\ piece.has_moved
              /\ piece.type \in Range(PromotionKinds)
              /\ piece.type = last.call[6]

\* the board of recorded game g after its first k calls
RECURSIVE BoardAt(_, _)
BoardAt(g, k) ==
    IF k = 0 THEN NewBoard ELSE Call(BoardAt(g, k - 1), Games[g][k]).board

\* how many of the positions of the game so far, the current one included,
\* have the placement, side to move, castling rights and en passant target
\* of the current board
Occurrences ==
    Cardinality({k \in 0..ply : get_position_key(BoardAt(game, k)) = get_position_key(board)})

(* C12: is_threefold_repetition() is true only when the current position   *)
(* has occurred at least three times in the game, so get_game_result()     *)
(* stays in_progress without repetition, mate, stalemate, fifty-move draw  *)
(* or insufficient material.                                               *)
C12_RepetitionCountsPositions ==
    game > 0 =>
        /\ is_threefold_repetition(board) => Occurrences >= 3
        /\ (/\ Occurrences < 3
            /\ ~is_checkmate(board)
            /\ ~is_stalemate(board)
            /\ board.halfmove_clock < 100
            /\ ~is_insufficient_material(board))
               => get_game_result(board) = "in_progress"

\* the calls that succeeded so far: every recorded call does
\* (BrokenGamesAreListed), a probe may
SuccessfulCalls == ply + (IF last.op = "probe" /\ last.ok THEN 1 ELSE 0)

(* C13: on the board of chess_board_broken.py, after n successful          *)
(* make_move calls position_history has exactly n entries and its last     *)
(* entry is _get_position_key() of the current board.                      *)
C13_HistoryEndsWithCurrentKey ==
    last.ok =>
        /\ Len(board.position_history) = SuccessfulCalls
        /\ board.position_history[Len(board.position_history)]
               = broken_get_position_key(board)

\* the part of C13 that the code keeps: one entry per successful call
HistoryHasOneEntryPerCall ==
    Len(board.position_history) = SuccessfulCalls

\* the call moves a pawn diagonally onto the en passant target of pre
IsEnPassantCapture(pre, c) ==
    /\ pre.board[c[1]][c[2]].type = "P"
    /\ pre.en_passant_target = <<c[3], c[4]>>
    /\ Abs(c[4] - c[2]) = 1

(* C14: on the board of chess_board_broken.py a successful en passant      *)
(* capture removes the pawn that made the double push and puts the         *)
(* capturing pawn on the target: after e2e4 b8c6 e4e5 d7d5 and             *)
(* (3,4)->(2,3), square (3,3) is empty and a white pawn stands on (2,3).   *)
C14_EnPassantRemovesPawn ==
    /\ (last.ok /\ IsEnPassantCapture(last.pre, last.call))
          => /\ board.board[last.call[1]][last.call[4]] = Empty
             /\ board.board[last.call[3]][last.call[4]]
                    = Piece("P", last.pre.current_player, TRUE)
    /\ (game > 0 /\ BrokenGames[game] = KnightGame /\ ply = Len(KnightGame) /\ probes = 0)
          => /\ last.ok
             /\ board.board[3][3] = Empty
             /\ board.board[2][3] = Piece("P", WHITE, TRUE)

\* the side to move has its king on a square the other side could capture on
SideToMoveInCheck(b) ==
    CouldCapture(b, Opponent(b.current_player),
                 b.kings[b.current_player][1], b.kings[b.current_player][2])

HasNoMove(b) == GeneratedCalls(b) = {}

(* C15: get_game_result() returns one of in_progress, white_wins,          *)
(* black_wins, draw; with the side to move in check and without a legal    *)
(* move it is a win for the other colour, whatever halfmove_clock and the  *)
(* material are, and with the side to move not in check and without a      *)
(* legal move it is draw.                                                  *)
C15_ResultLadder ==
    LET result == get_game_result(board)
    IN /\ result \in {"in_progress", "white_wins", "black_wins", "draw"}
       /\ (HasNoMove(board) /\ SideToMoveInCheck(board))
             => result = (IF board.current_player = WHITE
                          THEN "black_wins" ELSE "white_wins")
       /\ (HasNoMove(board) /\ ~SideToMoveInCheck(board)) => result = "draw"

\* White is mated with a king and a knight on each side
C15_Witness ==
    /\ HasNoMove(board)
    /\ SideToMoveInCheck(board)
    /\ is_insufficient_material(board)
    /\ get_game_result(board) = "black_wins"

\* mate on a board whose halfmove_clock has passed 100
MateAfterFiftyMoves ==
    /\ HasNoMove(board)
    /\ SideToMoveInCheck(board)
    /\ board.halfmove_clock >= 100
    /\ get_game_result(board) = "black_wins"

\* stalemate
StalemateReached ==
    HasNoMove(board) /\ ~SideToMoveInCheck(board) /\ get_game_result(board) = "draw"

\* the call pushes a pawn two squares up its file
IsDoublePush(pre, c) ==
    /\ pre.board[c[1]][c[2]].type = "P"
    /\ c[4] = c[2]
    /\ Abs(c[3] - c[1]) = 2

(* C16: after every successful make_move with generated squares and        *)
(* markers, en_passant_target is the square the pawn skipped when the move *)
(* was a two-square pawn push, and None after any other move.              *)
C16_TargetIffDoublePush ==
    (last.op = "make_move" /\ last.ok)
        => board.en_passant_target
              = (IF IsDoublePush(last.pre, last.call)
                 THEN <<last.call[1] + PawnDirection(last.pre.current_player), last.call[2]>>
                 ELSE NoSquare)

\* a double push was answered by a double push: the target moved on
C16_Witness ==
    /\ last.op = "make_move" /\ last.ok
    /\ IsDoublePush(last.pre, last.call)
    /\ last.pre.en_passant_target /= NoSquare
    /\ board.en_passant_target /= NoSquare
    /\ board.en_passant_target /= last.pre.en_passant_target

C18_PlayersAlternate ==
    last.op \in {"make_move", "probe"} =>
        /\ last.ok
              => /\ last.pre.board[last.call[1]][last.call[2]].color
                        = last.pre.current_player
                 /\ board.current_player = Opponent(last.pre.current_player)
        /\ (~last.ok /\ ~last.raised)
              => board.current_player = last.pre.current_player

\* Black has castled and it is White's move again
C18_Witness ==
    /\ last.op = "make_move" /\ last.ok
    /\ last.call[5] \in {"kingside_castle", "queenside_castle"}
    /\ last.pre.current_player = BLACK
    /\ board.current_player = WHITE

(* C19: white kingside castling, (7,4)->(7,6) with marker                  *)
(* 'kingside_castle' where it is generated, leaves the king on (7,6) and   *)
(* the rook on (7,5), both with has_moved true, (7,4) and (7,7) empty,     *)
(* kings[White] = (7,6) and both of White's castling rights false.         *)
C19_WhiteKingsideCastle ==
    (/\ last.op = "make_move"
     /\ last.call = <<7, 4, 7, 6, "kingside_castle", None>>
     /\ last.pre.current_player = WHITE
     /\ last.call \in GeneratedCalls(last.pre))
        => /\ last.ok
           /\ board.board[7][6] = Piece("K", WHITE, TRUE)
           /\ board.board[7][5] = Piece("R", WHITE, TRUE)
           /\ board.board[7][4] = Empty
           /\ board.board[7][7] = Empty
           /\ board.kings[WHITE] = <<7, 6>>
           /\ ~board.castling_rights[WHITE].kingside
           /\ ~board.castling_rights[WHITE].queenside

\* White has just castled kingside
C19_Witness ==
    /\ last.op = "make_move" /\ last.ok
    /\ last.call = <<7, 4, 7, 6, "kingside_castle", None>>
    /\ last.pre.castling_rights[WHITE].queenside
    /\ board.board[7][6].type = "K"
    /\ board.current_player = BLACK

\* the number of sequences of d half-moves playable from b, each move taken
\* from get_all_legal_moves() and applied with make_move as it is returned
RECURSIVE Perft(_, _), PerftOver(_, _, _, _)
Perft(b, d) ==
    IF d = 0 THEN 1 ELSE PerftOver(b, get_all_legal_moves(b), 1, d)

PerftOver(b, moves, i, d) ==
    IF i > Len(moves) THEN 0
    ELSE LET res == make_move(b, moves[i][1], moves[i][2], moves[i][3], moves[i][4],
                              None, None)
         IN (IF res.ok THEN Perft(res.board, d - 1) ELSE 0)
            + PerftOver(b, moves, i + 1, d)

(* C20: get_all_legal_moves() returns 20 moves for the starting position   *)
(* and 8902 sequences of three half-moves can be played from it (perft 3). *)
C20_PerftThree ==
    (game = 0 /\ ply = 0)
        => /\ Len(get_all_legal_moves(board)) = 20
           /\ Perft(board, 3) = 8902

\* the starting position, from which 400 sequences of two half-moves start
C20_Witness ==
    /\ board = NewBoard
    /\ Perft(board, 2) = 400

(* C21: from the start position (6,4)->(4,4), (1,4)->(3,4), (7,5)->(4,2),  *)
(* (0,1)->(2,2), (7,3)->(3,7), (0,6)->(2,5), (3,7)->(1,5) succeed at every *)
(* step, after which is_checkmate() is true and get_game_result() is       *)
(* white_wins.                                                             *)
C21_ScholarsMate ==
    (game > 0 /\ Games[game] = ScholarGame /\ last.op = "make_move")
        => /\ last.ok
           /\ ply = Len(ScholarGame)
                 => /\ is_checkmate(board)
                    /\ get_game_result(board) = "white_wins"

\* the queen has taken on (1,5) and Black is mated
C21_Witness ==
    /\ game > 0 /\ Games[game] = ScholarGame
    /\ ply = Len(ScholarGame)
    /\ last.ok /\ last.call = <<3, 7, 1, 5, None, None>>
    /\ board.board[1][5] = Piece("Q", WHITE, TRUE)
    /\ is_in_check(board, BLACK)

\* the heap leaves the object a call acted on in the position the rules
\* compute
HeapAgreesWithRules ==
    /\ last.op = "make_move"
          => View(board.heap, board.original) = Call(last.pre, last.call).board
    /\ last.op = "copy_move"
          => View(board.heap, board.copied) = Call(last.pre, last.call).board

(* C22: ChessBoard.copy() yields a board that shares no mutable state with *)
(* the original: moves applied to the copy never change any field of the   *)
(* original (nor moves applied to the original any field of the copy), and *)
(* after the same move sequence both hold identical grid, side to move,    *)
(* castling rights, en-passant target, clocks and move history.            *)
C22_CopyIsIndependent ==
    board.copied /= NoRef
        => /\ Reach(board.heap, board.original) \cap Reach(board.heap, board.copied) = {}
           /\ last.op = "copy"
                 => View(board.heap, board.copied) = View(board.heap, board.original)
           /\ last.op = "copy_move"
                 => View(board.heap, board.original) = last.other
           /\ last.op = "make_move"
                 => View(board.heap, board.copied) = last.other
           /\ ply = board.taken + probes
                 => View(board.heap, board.copied) = View(board.heap, board.original)

\* a copy taken in mid-game has castled on its own and the original has
\* then caught up with it
C22_Witness ==
    /\ board.copied /= NoRef
    /\ board.taken > 0
    /\ probes > 0
    /\ ply = board.taken + probes
    /\ last.op = "make_move" /\ last.ok
    /\ \E k \in (board.taken + 1)..ply : CopyGames[game][k][5] = "kingside_castle"

(* C30: MCTSNode.is_terminal() is true whenever the node's board result is *)
(* not in_progress (checkmate, stalemate, fifty-move draw, insufficient    *)
(* material or threefold repetition) or the board has no legal moves.      *)
C30_TerminalCoversResult ==
    (get_game_result(board) /= "in_progress" \/ Len(get_all_legal_moves(board)) = 0)
        => is_terminal(board)

(* C25: if the data recorder raises while RLEnhancedMCTS.search records    *)
(* the incoming position, the exception is swallowed and search still      *)
(* returns a legal move, or None when there are no legal moves.            *)
C25_SinkFailureIsSwallowed ==
    (last.op = "search" /\ IsRecording(last.pre.engine) /\ last.sink_fails)
        => /\ ~last.raised
           /\ LET legal_moves == get_all_legal_moves(last.pre.board)
              IN IF Len(legal_moves) = 0 THEN last.result = NoMove
                 ELSE last.result \in Range(legal_moves)

\* the recorder has failed during a search in a position with legal moves
C25_Witness ==
    /\ last.op = "search" /\ IsRecording(last.pre.engine) /\ last.sink_fails
    /\ last.result /= NoMove
    /\ Len(board.engine.position_history) > Len(last.pre.engine.position_history)

(* C26: every call to RLEnhancedMCTS.search appends the incoming position  *)
(* to position_history (the oldest record being dropped once 100 are       *)
(* stored), including when data_recorder is None, as it is for the engine  *)
(* that GameSession creates.                                               *)
C26_SearchAppendsPosition ==
    last.op = "search"
        => LET before == last.pre.engine.position_history
               after == board.engine.position_history
           IN /\ Len(after) = (IF Len(before) >= HistoryMax THEN HistoryMax
                               ELSE Len(before) + 1)
              /\ after[Len(after)].position = to_dict(last.pre.board)

\* the label the outcome should give a position the engine searched for side
LabelFor(result, side) ==
    IF result = "draw" THEN "neutral"
    ELSE IF (result = "white_wins" /\ side = WHITE) \/ (result = "black_wins" /\ side = BLACK)
    THEN "good"
    ELSE "bad"

(* C27: record_game_outcome labels the last ten stored positions 'good'    *)
(* when the result is a win for the engine's side, 'bad' when it is a loss *)
(* for the engine's side ('white_wins' when the engine plays Black) and    *)
(* 'neutral' for a draw.                                                   *)
C27_OutcomeLabels ==
    (last.op = "finish_game" /\ ~last.raised
        /\ last.outcome \in {"white_wins", "black_wins", "draw"})
        => LET history == board.engine.position_history
           IN \A k \in 1..Len(history) :
                 k > Len(history) - LabelledPositions
                    => history[k].result = LabelFor(last.outcome, history[k].player)

(* C28: GameSession.get_ai_move() runs the engine for whichever colour is  *)
(* to move and returns a move whenever that side has at least one legal    *)
(* move.                                                                   *)
C28_AiMoveForSideToMove ==
    (last.op = "get_ai_move" /\ Len(get_all_legal_moves(board.board)) > 0)
        => last.result /= NoMove

(***************************************************************************)
(* The WebSocket handler of a move.  A message is what json.loads gives:   *)
(* lists of two integers for "from" and "to" (<< >> when the key is absent *)
(* or the list is empty) and, for "promotion", << >> for null, no key or   *)
(* an empty object, else <<type, piece>>.  A piece in a message is a JSON  *)
(* string or null, never a member of PieceType: JsonString("Q") is the str *)
(* 'Q'.                                                                    *)
(***************************************************************************)
Sockets == {"host", "guest"}

JsonString(kind) ==
    CASE kind = "Q" -> "'Q'" [] kind = "R" -> "'R'" [] kind = "B" -> "'B'"
      [] kind = "N" -> "'N'" [] kind = "K" -> "'K'" [] OTHER -> None

Message(from_pos, to_pos, promotion) ==
    [from |-> from_pos, to |-> to_pos, promotion |-> promotion]

\* the message a client sends for a recorded call, the promotion piece as a
\* JSON string
MessageOfCall(c) ==
    Message(<<c[1], c[2]>>, <<c[3], c[4]>>,
            IF c[5] = None THEN << >> ELSE <<c[5], JsonString(c[6])>>)

MoveMade(m, game_state) ==
    [type |-> "move_made", from |-> m.from, to |-> m.to, promotion |-> m.promotion,
     game_state |-> game_state]

ErrorMessage(text) == [type |-> "error", message |-> text]

NothingSent == [ws \in Sockets |-> << >>]

\* WebSocketManager.broadcast_to_session: send_text on every socket of the
\* session; the sockets whose send_text raises are disconnected.  sent is
\* what send_text was called with, socket by socket.
broadcast_to_session(connections, sender, message, failing) ==
    [connections |-> connections \ failing,
     sent |-> [ws \in Sockets |-> IF ws \in connections THEN <<message>> ELSE << >>]]

\* GameSession.get_game_state: board.to_dict() and the legal moves, which
\* are a function of the board
get_game_state(s) == to_dict(s.board)

\* handle_make_move for a message from the socket sender: the session and
\* the connections it leaves, what it sent to each socket, and what the
\* board answered (asked is FALSE when the board was not called)
handle_make_move(s, connections, sender, m, failing) ==
    LET untouched == [session |-> s, connections |-> connections,
                      sent |-> NothingSent, asked |-> FALSE, ok |-> FALSE,
                      raised |-> FALSE]
        error(res, text) ==
            [session |-> [s EXCEPT !.board = res.board], connections |-> connections,
             sent |-> [NothingSent EXCEPT ![sender] = <<ErrorMessage(text)>>],
             asked |-> TRUE, ok |-> res.ok, raised |-> res.raised]
    IN IF m.from = << >> \/ m.to = << >> THEN untouched
       ELSE The({
              IF res.raised THEN error(res, "exception")
              ELSE IF ~res.ok THEN error(res, "Invalid move")
              ELSE IF to_dict_raises(res.board) THEN error(res, "exception")
              ELSE LET after == [s EXCEPT !.board = res.board]
                       cast == broadcast_to_session(connections, sender,
                                   MoveMade(m, get_game_state(after)), failing)
                   IN [session |-> after, connections |-> cast.connections,
                       sent |-> cast.sent, asked |-> TRUE, ok |-> TRUE,
                       raised |-> FALSE]
              : res \in {Call(s.board,
                              <<m.from[1], m.from[2], m.to[1], m.to[2],
                                IF m.promotion = << >> THEN None ELSE m.promotion[1],
                                IF m.promotion = << >> THEN None ELSE m.promotion[2]>>)} })

WsGames == <<PromotionGame, PawnAttackGame, EnPassantGame>>

\* the messages a client may send at a point of a game: the recorded call,
\* the same without its promotion piece or without its promotion, the call
\* reversed, the call after it, and a message without "from"
Recorded(g, k) == MessageOfCall(WsGames[g][k + 1])

OtherMessages(g, k) ==
    LET m == Recorded(g, k)
    IN ({Message(m.from, m.to, << >>), Message(m.to, m.from, << >>),
         Message(<< >>, m.to, m.promotion)}
        \cup (IF m.promotion = << >> THEN {}
              ELSE {Message(m.from, m.to, <<m.promotion[1], None>>)})
        \cup (IF k + 1 < Len(WsGames[g]) THEN {Recorded(g, k + 1)} ELSE {}))
       \ {m}

WsLast(op, sender, m, pre, registered, res) ==
    [op |-> op, sender |-> sender, message |-> m, pre |-> pre,
     registered |-> registered, asked |-> res.asked, ok |-> res.ok,
     raised |-> res.raised, sent |-> res.sent]

NoAnswer == [asked |-> FALSE, ok |-> FALSE, raised |-> FALSE, sent |-> NothingSent]

NoMessage == Message(<< >>, << >>, << >>)

WsInit ==
    /\ board = [session |-> [board |-> NewBoard], connections |-> {}]
    /\ game = 0
    /\ ply = 0
    /\ probes = 0
    /\ last = WsLast("new", None, NoMessage, NewBoard, {}, NoAnswer)

\* WebSocketManager.add_connection
WsConnect ==
    /\ \E ws \in Sockets \ board.connections :
          /\ board' = [board EXCEPT !.connections = @ \cup {ws}]
          /\ last' = WsLast("connect", ws, NoMessage, board.session.board,
                            board.connections, NoAnswer)
    /\ UNCHANGED <<game, ply, probes>>

\* WebSocketManager.disconnect
WsDisconnect ==
    /\ ply > 0
    /\ \E ws \in board.connections :
          /\ board' = [board EXCEPT !.connections = @ \ {ws}]
          /\ last' = WsLast("disconnect", ws, NoMessage, board.session.board,
                            board.connections, NoAnswer)
    /\ UNCHANGED <<game, ply, probes>>

Handled(sender, m, failing) ==
    \E res \in {handle_make_move(board.session, board.connections, sender, m, failing)} :
       /\ board' = [session |-> res.session, connections |-> res.connections]
       /\ last' = WsLast("make_move", sender, m, board.session.board,
                         board.connections, res)

\* a registered client sends the next recorded call of a game
WsMove ==
    \E g \in 1..Len(WsGames) :
        /\ game = g \/ (game = 0 /\ ply = 0)
        /\ ply < Len(WsGames[g])
        /\ \E sender \in board.connections, failing \in SUBSET board.connections :
              Handled(sender, Recorded(g, ply), failing)
        /\ game' = g
        /\ ply' = ply + 1
        /\ UNCHANGED probes

\* a registered client sends another message
WsProbe ==
    /\ game > 0
    /\ ply < Len(WsGames[game])
    /\ probes < MaxProbes
    /\ \E sender \in board.connections, m \in OtherMessages(game, ply) :
          Handled(sender, m, {})
    /\ probes' = probes + 1
    /\ UNCHANGED <<game, ply>>

NextWs == WsConnect \/ WsDisconnect \/ WsMove \/ WsProbe

SpecWs == WsInit /\ [][NextWs]_vars

(***************************************************************************)
(* The statistics of a search with max_depth 1 in a position with two      *)
(* legal moves: the children of the root are leaves, a pass of the loop    *)
(* adds the next child or takes the child with the best UCB1 value, and    *)
(* the playout from it may have any result.  The position is the one after *)
(* e2e4 f7f6 h2h4 d7d5 d1h5, Black to move; of the boards only the side to *)
(* move is kept.  UCB1 values are in units of 0.0001.  At most MaxDraws    *)
(* playouts of a search end in a draw.                                     *)
(***************************************************************************)
SelectSimulations == 51
MaxDraws == 1

Infinity == 2000000000

\* math.log(n) in units of 0.000001, for n = 1..64
LogMicro ==
    << 0, 693147, 1098612, 1386294, 1609438, 1791759, 1945910, 2079442,
       2197225, 2302585, 2397895, 2484907, 2564949, 2639057, 2708050, 2772589,
       2833213, 2890372, 2944439, 2995732, 3044522, 3091042, 3135494, 3178054,
       3218876, 3258097, 3295837, 3332205, 3367296, 3401197, 3433987, 3465736,
       3496508, 3526361, 3555348, 3583519, 3610918, 3637586, 3663562, 3688879,
       3713572, 3737670, 3761200, 3784190, 3806662, 3828641, 3850148, 3871201,
       3891820, 3912023, 3931826, 3951244, 3970292, 3988984, 4007333, 4025352,
       4043051, 4060443, 4077537, 4094345, 4110874, 4127134, 4143135, 4158883 >>

\* the whole part of the square root of x
RECURSIVE SqrtBetween(_, _, _)
SqrtBetween(x, low, high) ==
    IF high - low <= 1 THEN low
    ELSE LET mid == (low + high) \div 2
         IN IF mid * mid <= x THEN SqrtBetween(x, mid, high)
            ELSE SqrtBetween(x, low, mid)

Sqrt(x) == SqrtBetween(x, 0, 32768)

\* MCTSNode.ucb1_value with c = 1.4, to within 0.0003
ucb1_value(nodes, n) ==
    IF nodes[n].visits = 0 THEN Infinity
    ELSE (nodes[n].wins * 5000) \div nodes[n].visits
         + (14 * Sqrt((LogMicro[nodes[nodes[n].parent].visits] * 100)
                         \div nodes[n].visits)) \div 10

\* MCTSNode.best_child: the children max() can return, those whose value
\* is not told from the largest at this precision
best_child(nodes, n) ==
    LET children == nodes[n].children
        value == << >> \o [k \in 1..Len(children) |-> ucb1_value(nodes, children[k])]
    IN {children[k] : k \in {k \in 1..Len(children) :
                                \A j \in 1..Len(children) : value[k] + 4 >= value[j]}}

\* the two legal moves of the position, highest priority first
RootMoves == << <<0, 4, 1, 3>>, <<1, 6, 2, 6>> >>

\* the boards of the root and of its children, by their side to move
StatHeap == << [current_player |-> BLACK], [current_player |-> WHITE] >>

StatNode(ref, move, parent, untried_moves) ==
    [board |-> ref, move |-> move, parent |-> parent, children |-> << >>,
     visits |-> 0, wins |-> 0, untried_moves |-> untried_moves]

\* _select_and_expand(root, 0) with max_depth 1: the nodes it leaves and the
\* nodes it can return
StatSelectAndExpand(nodes) ==
    IF ~is_fully_expanded(nodes[1])
    THEN {[nodes |-> Append([nodes EXCEPT ![1].untried_moves = Tail(@),
                                          ![1].children = Append(@, Len(nodes) + 1)],
                            StatNode(2, nodes[1].untried_moves[1], 1, << >>)),
           node |-> Len(nodes) + 1]}
    ELSE {[nodes |-> nodes, node |-> n] : n \in best_child(nodes, 1)}

StatLast(op, result) == [op |-> op, result |-> result]

StatInit ==
    /\ board = [heap |-> StatHeap, nodes |-> <<StatNode(1, NoMove, 0, RootMoves)>>,
                simulations |-> 0]
    /\ game = 0
    /\ ply = 0
    /\ probes = 0
    /\ last = StatLast("new", 0)

\* one pass of the loop of search
StatIterate ==
    /\ board.simulations < SelectSimulations
    /\ \E step \in StatSelectAndExpand(board.nodes),
          result \in {WHITE, BLACK}
                       \cup (IF board.nodes[1].wins < MaxDraws THEN {"draw"} ELSE {}) :
          board' = [board EXCEPT
                       !.nodes = backpropagate(board.heap, step.nodes, step.node, result),
                       !.simulations = @ + 1]
    /\ last' = StatLast("iterate", 0)
    /\ UNCHANGED <<game, ply, probes>>

\* the time is up: search takes the child _select_best_move returns
StatFinish ==
    /\ last.op = "iterate"
    /\ \E best \in select_best_move(board.nodes, 1) :
          last' = StatLast("select_best_move", best)
    /\ UNCHANGED <<board, game, ply, probes>>

NextStat == StatIterate \/ StatFinish

SpecStat == StatInit /\ [][NextStat]_vars

(***************************************************************************)
(* SessionManager of src/session/game_session.py, called from several      *)
(* threads.  board is the manager (its dictionary, lock and last_cleanup,  *)
(* with the GameSession objects it has ever made), game the position of    *)
(* each thread, ply the clock time.time() reads, in seconds.               *)
(***************************************************************************)
Threads == 2

MaxCallsMade == 3

MaxTicks == 2

cleanup_interval == 1800

max_sessions == 1000

Day == 86400

ForcedTimeout == 7200

\* what uuid.uuid4() may return
Uuids == {"u1", "u2", "u3"}

\* the ids a client may ask for by name
AskedIds == {"a", "u1"}

Unlocked == 0

\* GameSession.__init__ and enable_rl_enhancement, as far as the manager reads them
NewSession(session_id, use_rl, now) ==
    [session_id |-> session_id, last_activity |-> now,
     use_rl_engine |-> use_rl, finished |-> FALSE]

\* GameSession.is_expired
is_expired(session, timeout, now) == now - session.last_activity > timeout

\* len(self.sessions): the sessions a call has named and the ones made earlier
SessionCount(m) == Cardinality(DOMAIN m.sessions) + m.earlier

NoCall == [pc |-> "idle", op |-> None, session_id |-> None, use_rl |-> FALSE,
         current_time |-> 0, force |-> FALSE, ret |-> "idle",
         result |-> << >>]

MgrLast(op, t) == [op |-> op, thread |-> t]

MgrInit ==
    /\ board \in {[sessions |-> << >>, objects |-> << >>, lock |-> Unlocked,
                   last_cleanup |-> 0, earlier |-> n]
                  : n \in {0, max_sessions - 1}}
    /\ game = [t \in 1..Threads |-> NoCall]
    /\ ply = 0
    /\ probes = [calls |-> 0, ticks |-> 0]
    /\ last = MgrLast("new", 0)

\* time passes
MgrTick ==
    /\ probes.ticks < MaxTicks
    /\ \E d \in {1, cleanup_interval, Day} : ply' = ply + d
    /\ probes' = [probes EXCEPT !.ticks = @ + 1]
    /\ last' = MgrLast("tick", 0)
    /\ UNCHANGED <<board, game>>

Starts(t) ==
    /\ game[t].pc = "idle"
    /\ probes.calls < MaxCallsMade
    /\ probes' = [probes EXCEPT !.calls = @ + 1]

\* the first lines of cleanup_expired_sessions: is a cleanup due?
CleanupDue(force) ==
    ply - board.last_cleanup > (IF force THEN 0 ELSE cleanup_interval)

EnterCleanup(t, op, force, ret) ==
    [game[t] EXCEPT !.pc = IF CleanupDue(force) THEN "cleanup_lock" ELSE ret,
                    !.op = op, !.current_time = ply, !.force = force,
                    !.ret = ret]

\* create_session: "with self.session_lock"
CreateLock ==
    \E t \in 1..Threads, use_rl \in BOOLEAN :
        /\ Starts(t)
        /\ board.lock = Unlocked
        /\ board' = [board EXCEPT !.lock = t]
        /\ game' = [game EXCEPT ![t] = [NoCall EXCEPT !.pc = "create_cleanup",
                                                    !.op = "create_session",
                                                    !.use_rl = use_rl]]
        /\ last' = MgrLast("create_lock", t)
        /\ UNCHANGED ply

\* create_session: self.cleanup_expired_sessions()
CreateCleanup ==
    \E t \in 1..Threads :
        /\ game[t].pc = "create_cleanup"
        /\ game' = [game EXCEPT ![t] = EnterCleanup(t, "create_session", FALSE,
                                                    "create_full")]
        /\ last' = MgrLast("create_cleanup", t)
        /\ UNCHANGED <<board, ply, probes>>

\* create_session: the forced cleanup of a full manager
CreateFull ==
    \E t \in 1..Threads :
        /\ game[t].pc = "create_full"
        /\ game' = [game EXCEPT ![t] =
                      IF SessionCount(board) >= max_sessions
                      THEN EnterCleanup(t, "create_session", TRUE, "create_store")
                      ELSE [@ EXCEPT !.pc = "create_store"]]
        /\ last' = MgrLast("create_full", t)
        /\ UNCHANGED <<board, ply, probes>>

\* self.sessions[session_id] = GameSession(...)
Store(m, session_id, use_rl, now) ==
    [m EXCEPT !.objects = Append(@, NewSession(session_id, use_rl, now)),
              !.sessions = [id \in DOMAIN @ \cup {session_id} |->
                              IF id = session_id THEN Len(m.objects) + 1
                              ELSE @[id]]]

\* create_session: a new uuid, the new session, and the lock is released
CreateStore ==
    \E t \in 1..Threads :
        /\ game[t].pc = "create_store"
        /\ \E session_id \in Uuids \ DOMAIN board.sessions :
              /\ board' = [Store(board, session_id, game[t].use_rl, ply)
                             EXCEPT !.lock = Unlocked]
              /\ game' = [game EXCEPT ![t] = [@ EXCEPT !.pc = "idle",
                                                      !.result = <<session_id>>]]
        /\ last' = MgrLast("create_session", t)
        /\ UNCHANGED <<ply, probes>>

\* the body of cleanup_expired_sessions under the lock
Cleaned(m, force, current_time, now) ==
    LET timeout == IF force THEN ForcedTimeout ELSE Day
        expired_sessions == {sid \in DOMAIN m.sessions :
                                is_expired(m.objects[m.sessions[sid]], timeout, now)}
    IN [m EXCEPT !.sessions = [id \in DOMAIN @ \ expired_sessions |-> @[id]],
                 !.objects = [k \in DOMAIN @ |->
                                IF /\ @[k].use_rl_engine
                                   /\ \E sid \in expired_sessions : m.sessions[sid] = k
                                THEN [@[k] EXCEPT !.finished = TRUE] ELSE @[k]],
                 !.earlier = IF now > timeout THEN 0 ELSE @,
                 !.last_cleanup = current_time]

\* cleanup_expired_sessions: "with self.session_lock", which waits until the
\* lock is free, whoever holds it
CleanupLock ==
    \E t \in 1..Threads :
        /\ game[t].pc = "cleanup_lock"
        /\ board.lock = Unlocked
        /\ board' = Cleaned(board, game[t].force, game[t].current_time, ply)
        /\ game' = [game EXCEPT ![t] = [@ EXCEPT !.pc = game[t].ret]]
        /\ last' = MgrLast("cleanup", t)
        /\ UNCHANGED <<ply, probes>>

\* cleanup_expired_sessions called by the cleanup thread of src/main_clean.py
CleanupCall ==
    \E t \in 1..Threads :
        /\ Starts(t)
        /\ game' = [game EXCEPT ![t] = EnterCleanup(t, "cleanup_expired_sessions",
                                                    FALSE, "idle")]
        /\ last' = MgrLast("cleanup_call", t)
        /\ UNCHANGED <<board, ply>>

\* get_session under the lock: the stored session, its activity updated
get_session(m, session_id, now) ==
    IF session_id \notin DOMAIN m.sessions
    THEN [manager |-> m, result |-> << >>]
    ELSE [manager |-> [m EXCEPT !.objects[m.sessions[session_id]].last_activity = now],
          result |-> <<m.sessions[session_id]>>]

GetSession ==
    \E t \in 1..Threads, session_id \in AskedIds :
        /\ Starts(t)
        /\ board.lock = Unlocked
        /\ \E got \in {get_session(board, session_id, ply)} :
              /\ board' = got.manager
              /\ game' = [game EXCEPT ![t] = [NoCall EXCEPT !.op = "get_session",
                                                          !.session_id = session_id,
                                                          !.result = got.result]]
        /\ last' = MgrLast("get_session", t)
        /\ UNCHANGED ply

\* get_or_create_session: session = self.get_session(session_id)
GetOrCreateLookup ==
    \E t \in 1..Threads, session_id \in AskedIds :
        /\ Starts(t)
        /\ board.lock = Unlocked
        /\ \E got \in {get_session(board, session_id, ply)} :
              /\ board' = got.manager
              /\ game' = [game EXCEPT ![t] =
                            [NoCall EXCEPT !.op = "get_or_create_session",
                                         !.pc = IF got.result = << >>
                                                THEN "get_or_create_store"
                                                ELSE "idle",
                                         !.session_id = session_id,
                                         !.result = got.result]]
        /\ last' = MgrLast("get_or_create_lookup", t)
        /\ UNCHANGED ply

\* get_or_create_session: the session made under the lock when none was found
GetOrCreateStore ==
    \E t \in 1..Threads :
        /\ game[t].pc = "get_or_create_store"
        /\ board.lock = Unlocked
        /\ board' = Store(board, game[t].session_id, FALSE, ply)
        /\ game' = [game EXCEPT ![t] = [@ EXCEPT !.pc = "idle",
                                                !.result = <<Len(board.objects) + 1>>]]
        /\ last' = MgrLast("get_or_create_session", t)
        /\ UNCHANGED <<ply, probes>>

NextMgr ==
    \/ MgrTick \/ CreateLock \/ CreateCleanup \/ CreateFull \/ CreateStore
    \/ CleanupLock \/ CleanupCall \/ GetSession \/ GetOrCreateLookup
    \/ GetOrCreateStore

SpecMgr == MgrInit /\ [][NextMgr]_vars

(***************************************************************************)
(* InvitationManager of src/multiplayer/features.py.  board is the         *)
(* dictionary of invitations, ply the clock, game the number of guests     *)
(* each code has admitted since its invitation was created.                *)
(***************************************************************************)
invitation_expiry == 3600

\* what _generate_invitation_code may return
Codes == {"AAAAAA", "BBBBBB"}

GuestNames == {"Player 2", "Player 3"}

\* the session ids a caller of join_game may pass
GuestSessionIds == {"", "g1", "g2"}

\* the truth value Python gives a session id
Truthy(x) == x \notin {None, ""}

Invitation(host_session_id, host_name, use_rl_engine, now) ==
    [host_session_id |-> host_session_id, host_player_name |-> host_name,
     guest_session_id |-> None, guest_player_name |-> None,
     created_at |-> now, status |-> "waiting", use_rl_engine |-> use_rl_engine]

JoinResult(success, message, host_session_id) ==
    [success |-> success, message |-> message, host_session_id |-> host_session_id]

\* InvitationManager.join_game under the lock
join_game(invitations, invitation_code, guest_session_id, guest_player_name, now) ==
    IF invitation_code \notin DOMAIN invitations
    THEN [invitations |-> invitations,
          result |-> JoinResult(FALSE, "Invalid invitation code", None)]
    ELSE LET invitation == invitations[invitation_code]
         IN IF now - invitation.created_at > invitation_expiry
            THEN [invitations |-> [c \in DOMAIN invitations \ {invitation_code}
                                     |-> invitations[c]],
                  result |-> JoinResult(FALSE, "Invitation has expired", None)]
            ELSE IF Truthy(invitation.guest_session_id)
            THEN [invitations |-> invitations,
                  result |-> JoinResult(FALSE, "Game is already full", None)]
            ELSE [invitations |->
                     [invitations EXCEPT ![invitation_code] =
                         [@ EXCEPT !.guest_session_id = guest_session_id,
                                   !.guest_player_name = guest_player_name,
                                   !.status = "in_progress"]],
                  result |-> JoinResult(TRUE, "Successfully joined Player 1's game!",
                                        invitation.host_session_id)]

InvLast(op, code, result, raised, admitted) ==
    [op |-> op, code |-> code, result |-> result, raised |-> raised,
     admitted |-> admitted]

NoJoin == JoinResult(FALSE, None, None)

InvInit ==
    /\ board = << >>
    /\ game = [c \in Codes |-> 0]
    /\ ply = 0
    /\ probes = [calls |-> 0, ticks |-> 0]
    /\ last = InvLast("new", None, NoJoin, FALSE, 0)

InvTick ==
    /\ probes.ticks < MaxTicks
    /\ \E d \in {1, invitation_expiry} : ply' = ply + d
    /\ probes' = [probes EXCEPT !.ticks = @ + 1]
    /\ last' = InvLast("tick", None, NoJoin, FALSE, 0)
    /\ UNCHANGED <<board, game>>

InvCalls ==
    /\ probes.calls < MaxCallsMade
    /\ probes' = [probes EXCEPT !.calls = @ + 1]

\* InvitationManager.create_invitation: a code not in use
CreateInvitation ==
    /\ InvCalls
    /\ \E code \in Codes \ DOMAIN board, host \in Uuids, use_rl \in BOOLEAN :
          /\ board' = [c \in DOMAIN board \cup {code} |->
                         IF c = code THEN Invitation(host, "Player 1", use_rl, ply)
                         ELSE board[c]]
          /\ game' = [game EXCEPT ![code] = 0]
          /\ last' = InvLast("create_invitation", code, NoJoin, FALSE, 0)
    /\ UNCHANGED ply

Joined(op, code, guest_session_id, name, raises) ==
    \E res \in {join_game(board, code, guest_session_id, name, ply)} :
       /\ board' = res.invitations
       /\ game' = [game EXCEPT ![code] = IF res.result.success THEN @ + 1 ELSE @]
       /\ last' = InvLast(op, code, res.result,
                          raises /\ ~res.result.success, game[code])

\* InvitationManager.join_game
JoinGame ==
    /\ InvCalls
    /\ \E code \in Codes, guest_session_id \in GuestSessionIds, name \in GuestNames :
          Joined("join_game", code, guest_session_id, name, FALSE)
    /\ UNCHANGED ply

\* InvitationManager.join_invitation: join_game with the session id "", a
\* ValueError when it fails
JoinInvitation ==
    /\ InvCalls
    /\ \E code \in Codes, name \in GuestNames :
          Joined("join_invitation", code, "", name, TRUE)
    /\ UNCHANGED ply

\* InvitationManager.cleanup_expired_invitations
CleanupExpiredInvitations ==
    /\ InvCalls
    /\ \E expired_codes \in {{c \in DOMAIN board :
                                ply - board[c].created_at > invitation_expiry}} :
          board' = [c \in DOMAIN board \ expired_codes |-> board[c]]
    /\ last' = InvLast("cleanup_expired_invitations", None, NoJoin, FALSE, 0)
    /\ UNCHANGED <<game, ply>>

NextInv == InvTick \/ CreateInvitation \/ JoinGame \/ JoinInvitation \/ CleanupExpiredInvitations

SpecInv == InvInit /\ [][NextInv]_vars

(***************************************************************************)
(* The tree of a search with max_depth 3 over positions that are told      *)
(* apart by the moves that led to them: each has the same two legal moves, *)
(* but one position after the first ply, which has none.  board is the     *)
(* search: the boards, the nodes and the loop's counter.                   *)
(***************************************************************************)
TreeDepth == 3

TreeSimulations == 11

\* the positions without a legal move
TreeTerminal == { <<2>> }

TreeBoard(path) ==
    [current_player |-> IF Len(path) % 2 = 0 THEN WHITE ELSE BLACK, path |-> path]

\* board.get_all_legal_moves(), highest priority first
TreeLegalMoves(b) == IF b.path \in TreeTerminal THEN << >> ELSE RootMoves

\* MCTSNode.is_terminal
TreeIsTerminal(b) == Len(TreeLegalMoves(b)) = 0

\* the loop of _select_and_expand: the nodes it can stop at, with their depth
RECURSIVE TreeSelect(_, _, _, _)
TreeSelect(h, nodes, n, current_depth) ==
    IF /\ ~TreeIsTerminal(h[nodes[n].board])
       /\ is_fully_expanded(nodes[n])
       /\ current_depth < TreeDepth
       /\ Len(nodes[n].children) > 0
    THEN UNION {TreeSelect(h, nodes, c, current_depth + 1) : c \in best_child(nodes, n)}
    ELSE {[node |-> n, depth |-> current_depth]}

\* the expansion of _select_and_expand: the first untried move is made on a
\* copy of the node's board and the child is returned
TreeExpand(h, nodes, n) ==
    LET b == h[nodes[n].board]
        k == Len(TreeLegalMoves(b)) - Len(nodes[n].untried_moves) + 1
        new_board == TreeBoard(Append(b.path, k))
    IN [heap |-> Append(h, new_board),
        nodes |-> Append([nodes EXCEPT ![n].untried_moves = Tail(@),
                                       ![n].children = Append(@, Len(nodes) + 1)],
                         StatNode(Len(h) + 1, nodes[n].untried_moves[1], n,
                                  TreeLegalMoves(new_board))),
        node |-> Len(nodes) + 1]

\* _select_and_expand(root, 0)
TreeSelectAndExpand(h, nodes) ==
    {IF /\ s.depth < TreeDepth
        /\ ~TreeIsTerminal(h[nodes[s.node].board])
        /\ ~is_fully_expanded(nodes[s.node])
     THEN TreeExpand(h, nodes, s.node)
     ELSE [heap |-> h, nodes |-> nodes, node |-> s.node]
     : s \in TreeSelect(h, nodes, 1, 0)}

TreeInit ==
    /\ board = [heap |-> <<TreeBoard(<< >>)>>,
                nodes |-> <<StatNode(1, NoMove, 0, RootMoves)>>,
                simulations |-> 0]
    /\ game = 0
    /\ ply = 0
    /\ probes = 0
    /\ last = StatLast("new", 0)

\* one pass of the loop of search
TreeIterate ==
    /\ board.simulations < TreeSimulations
    /\ \E step \in TreeSelectAndExpand(board.heap, board.nodes),
          result \in {WHITE, BLACK, "draw"} :
          /\ board' = [heap |-> step.heap,
                       nodes |-> backpropagate(step.heap, step.nodes, step.node, result),
                       simulations |-> board.simulations + 1]
          /\ last' = StatLast("iterate", step.node)
    /\ UNCHANGED <<game, ply, probes>>

\* the search ends and takes the child _select_best_move returns
TreeFinish ==
    /\ last.op = "iterate"
    /\ \E best \in select_best_move(board.nodes, 1) :
          last' = StatLast("select_best_move", best)
    /\ UNCHANGED <<board, game, ply, probes>>

NextTree == TreeIterate \/ TreeFinish

SpecTree == TreeInit /\ [][NextTree]_vars

(***************************************************************************)
(* The move selection of the playouts of src/engines/mcts.py, with the     *)
(* priorities of src/models/evaluator.py.  board is the board of the       *)
(* playout, reached by the recorded moves of a game.                       *)
(***************************************************************************)
MaxPlayoutMoves == 1

\* a pawn reaches b7 with b8 empty: it can promote without a capture
QuietPromotionGame ==
    << <<6, 0, 4, 0, "none", "none">>, <<0, 1, 2, 2, "none", "none">>, <<4, 0, 3, 0, "none", "none">>,
       <<2, 2, 4, 3, "none", "none">>, <<3, 0, 2, 0, "none", "none">>, <<1, 7, 2, 7, "none", "none">>,
       <<2, 0, 1, 1, "none", "none">>, <<2, 7, 3, 7, "none", "none">> >>

PlayoutGames == <<QuietPromotionGame, PromotionGame, ScholarGame>>

get_move_priority_promotion_120(b, move) ==
    LET target == b.board[move[3]][move[4]]
        temp == EngineCall(b, move)
    IN (IF target /= Empty THEN 10 + PieceValue(target.type) ELSE 0)
       + (IF Len(move) > 4 /\ move[5] = "promotion" THEN 120 ELSE 0)
       + (IF ~temp.raised /\ is_in_check(temp.board, Opponent(b.current_player))
          THEN 15 ELSE 0)
       + (IF <<move[3], move[4]>> \in {<<3, 3>>, <<3, 4>>, <<4, 3>>, <<4, 4>>}
          THEN 2 ELSE 0)

\* ChessEvaluator.get_move_priority
evaluator_get_move_priority(b, move) ==
    LET target == b.board[move[3]][move[4]]
        temp == EngineCall(b, move)
    IN (IF target /= Empty THEN 10 + PieceValue(target.type) ELSE 0)
       + (IF Len(move) > 4 /\ move[5] = "promotion" THEN 20 ELSE 0)
       + (IF ~temp.raised /\ is_in_check(temp.board, Opponent(b.current_player))
          THEN 15 ELSE 0)
       + (IF <<move[3], move[4]>> \in {<<3, 3>>, <<3, 4>>, <<4, 3>>, <<4, 4>>}
          THEN 2 ELSE 0)

\* the list _select_simulation_move puts a move of board b in, with what the
\* move is: its priority, whether it takes a piece, whether it gives check
Categorized(b, move) ==
    The({[move |-> move,
          priority |-> priority,
          capture |-> b.board[move[3]][move[4]] /= Empty,
          check |-> temp.ok /\ ~temp.raised
                       /\ is_in_check(temp.board, Opponent(b.current_player)),
          category |->
             IF ~temp.ok \/ temp.raised THEN "skipped"
             ELSE IF is_checkmate(temp.board) THEN "checkmate"
             ELSE IF is_in_check(temp.board, Opponent(b.current_player)) THEN "check"
             ELSE IF b.board[move[3]][move[4]] /= Empty THEN "capture"
             ELSE IF priority > 100 THEN "tactical"
             ELSE "normal"] :
            temp \in {EngineCall(b, move)},
            priority \in {evaluator_get_move_priority(b, move)}})

\* the indices of the moves _select_simulation_move can return, whatever
\* random.random() and random.choice give
select_simulation_move(categorized) ==
    LET all == 1..Len(categorized)
        checkmate_moves == {i \in all : categorized[i].category = "checkmate"}
        check_moves == {i \in all : categorized[i].category = "check"}
        capture_moves == {i \in all : categorized[i].category = "capture"}
        tactical_moves == {i \in all : categorized[i].category = "tactical"}
        normal_moves == {i \in all : categorized[i].category = "normal"}
    IN IF checkmate_moves /= {} THEN checkmate_moves
       ELSE check_moves \cup capture_moves
            \cup (IF check_moves = {} /\ capture_moves = {}
                  THEN tactical_moves ELSE {})
            \cup (IF normal_moves /= {} THEN normal_moves ELSE {1})

PlayoutLast(op, categorized, chosen) ==
    [op |-> op, categorized |-> categorized, chosen |-> chosen]

PlayoutInit ==
    /\ board = NewBoard
    /\ game = 0
    /\ ply = 0
    /\ probes = 0
    /\ last = PlayoutLast("new", << >>, 0)

\* the next recorded move of a game
PlayoutSetUp ==
    \E g \in 1..Len(PlayoutGames) :
        /\ game = g \/ (game = 0 /\ ply = 0)
        /\ probes = 0
        /\ ply < Len(PlayoutGames[g])
        /\ board' = Call(board, PlayoutGames[g][ply + 1]).board
        /\ last' = PlayoutLast("make_move", << >>, 0)
        /\ game' = g
        /\ ply' = ply + 1
        /\ UNCHANGED probes

\* the legal moves as a board passes them that marks a pawn's move to the
\* last row with a fifth element
Marked(b, moves) ==
    [i \in DOMAIN moves |->
        IF /\ b.board[moves[i][1]][moves[i][2]].type = "P"
           /\ moves[i][3] \in {0, 7}
        THEN Append(moves[i], "promotion") ELSE moves[i]]

\* one pass of the loop of _simulate: a move is selected and made.  The
\* moves are the board's legal moves, as four squares or with the marker
PlayoutMove ==
    /\ game > 0
    /\ probes < MaxPlayoutMoves
    /\ ~is_checkmate(board) /\ ~is_stalemate(board)
    /\ ~is_draw_by_fifty_moves(board) /\ ~is_insufficient_material(board)
    /\ \E legal_moves \in {get_all_legal_moves(board)} :
       \E moves \in {legal_moves, Marked(board, legal_moves)} :
          /\ Len(moves) > 0
          /\ \E categorized \in {[i \in 1..Len(moves) |-> Categorized(board, moves[i])]} :
                \E chosen \in select_simulation_move(categorized) :
                   \E res \in {EngineCall(board, moves[chosen])} :
                      /\ res.ok /\ ~res.raised
                      /\ board' = res.board
                      /\ last' = PlayoutLast("select_simulation_move",
                                             categorized, chosen)
    /\ probes' = probes + 1
    /\ UNCHANGED <<game, ply>>

NextPlayout == PlayoutSetUp \/ PlayoutMove

SpecPlayout == PlayoutInit /\ [][NextPlayout]_vars

(* C23: ChessMCTS.search never runs more than max_simulations playouts in  *)
(* one call: the loop's simulation counter and root.visits never exceed    *)
(* max_simulations, whatever the time limit.                               *)
C23_SimulationsAreCapped ==
    /\ board.search.running
          => /\ board.search.simulations <= MaxSimulations
             /\ board.search.nodes[1].visits <= MaxSimulations
    /\ last.op = "search"
          => last.simulations <= MaxSimulations /\ last.visits <= MaxSimulations

\* a search is at the cap with time left on its clock
C23_Witness ==
    /\ board.search.running
    /\ board.search.simulations = MaxSimulations
    /\ board.search.nodes[1].visits = MaxSimulations
    /\ board.search.elapsed < TimeLimit

(* C24: ChessMCTS.search(board) leaves the board object it is given        *)
(* unchanged (grid, side to move, castling rights, en-passant target,      *)
(* clocks, move history): every move tried in the mate-in-one scan, in the *)
(* tree and in the playouts is applied to a copy.                          *)
C24_SearchLeavesBoard ==
    /\ board.search.running
          => /\ View(board.heap, board.original) = board.search.given
             /\ \A n \in DOMAIN board.search.nodes :
                   board.original \notin Reach(board.heap, board.search.nodes[n].board)
    /\ last.op = "search" => View(board.heap, board.original) = last.given

\* a search that ran its playouts in a position where castling is legal has
\* returned a move
C24_Witness ==
    /\ last.op = "search"
    /\ last.result /= NoMove
    /\ last.simulations > 0
    /\ \E move \in Range(get_all_legal_moves(last.given)) :
          SubSeq(move, 1, 4) = <<7, 4, 7, 6>>

C31_PlayoutWithinCombinedDepth ==
    last.op = "iterate"
        => /\ last.playout.moves
                 <= Min(SimulationDepthLimit, 2 * MaxDepth - last.playout.depth)
           /\ last.playout.depth + last.playout.moves <= 2 * MaxDepth

\* the nodes from node n up to the root
RECURSIVE PathToRoot(_, _)
PathToRoot(nodes, n) ==
    IF n = 0 THEN {} ELSE {n} \cup PathToRoot(nodes, nodes[n].parent)

\* visits and wins (in half points) of node k in a list of nodes, 0 for a
\* node that is not in it yet
VisitsIn(nodes, k) == IF k \in DOMAIN nodes THEN nodes[k].visits ELSE 0
WinsIn(nodes, k) == IF k \in DOMAIN nodes THEN nodes[k].wins ELSE 0

C33_BestMoveByVisitsThenScore ==
    last.op = "select_best_move"
        => LET nodes == board.nodes
               children == Range(nodes[1].children)
               max_visits == CHOOSE v \in {nodes[c].visits : c \in children} :
                                \A c \in children : nodes[c].visits <= v
               meeting == {c \in children : nodes[c].visits * 10 >= max_visits * 7}
               explored == {c \in children : nodes[c].visits >= 5}
           IN IF Cardinality(meeting) = 1 THEN last.result \in meeting
              ELSE IF explored /= {}
              THEN /\ last.result \in explored
                   /\ \A c \in explored :
                         ~ScoreAbove(nodes[c].visits, nodes[c].wins,
                                     nodes[last.result].visits, nodes[last.result].wins,
                                     max_visits)
              ELSE nodes[last.result].visits = max_visits

(* C34: _get_rl_move_value adds +0.1 for each of the last five stored      *)
(* positions labelled 'good' and -0.1 for each labelled 'bad' whenever     *)
(* labelled positions are stored, including when position_history holds    *)
(* five or fewer records.                                                  *)
C34_LabelsCountAtAnyLength ==
    last.op = "get_rl_move_value"
        => last.value
              = Max(-10, Min(10, RlMoveScore(last.pre.board, last.result)
                                 + LabelValue(LastOf(board.engine.position_history, 5))))

(* C35: SessionManager.create_session never blocks forever on session_lock: *)
(* no thread waits for the lock while holding it itself.                    *)
C35_CreateSessionNeverBlocks ==
    \A t \in 1..Threads : ~(game[t].pc = "cleanup_lock" /\ board.lock = t)

(* C36: a session stored in the manager is never replaced by a fresh one    *)
(* while it is stored, so that concurrent get_or_create_session calls with  *)
(* the same unknown id all return the same GameSession object.              *)
C36_StoredSessionNeverReplaced ==
    [][\A id \in DOMAIN board.sessions \cap DOMAIN board'.sessions :
          board'.sessions[id] = board.sessions[id]]_vars

(* C37: each invitation code admits at most one guest: once a join of a     *)
(* code has succeeded, every later join_game or join_invitation for that    *)
(* code fails with "Game is already full".                                  *)
C37_OneGuestPerCode ==
    /\ \A c \in Codes : game[c] <= 1
    /\ (last.op \in {"join_game", "join_invitation"} /\ last.admitted >= 1)
          => /\ ~last.result.success
             /\ last.result.message = "Game is already full"

\* the sum of the visits of the nodes of a sequence
RECURSIVE VisitsOf(_, _)
VisitsOf(nodes, children) ==
    IF children = << >> THEN 0
    ELSE nodes[Head(children)].visits + VisitsOf(nodes, Tail(children))

(* C38: after any number of simulations every node of the tree has          *)
(* 0 <= wins <= visits (wins are in half points here), every child has at   *)
(* least one visit, a node's visits are at least the sum of its children's, *)
(* and the root's visits are the number of simulations run, so that         *)
(* ucb1_value divides by a child's visits of at least 1 and takes the       *)
(* logarithm of a parent's visits of at least 1.                            *)
C38_TreeStatistics ==
    /\ board.nodes[1].visits = board.simulations
    /\ \A n \in DOMAIN board.nodes :
          LET node == board.nodes[n]
          IN /\ 0 <= node.wins
             /\ node.wins <= 2 * node.visits
             /\ node.visits >= VisitsOf(board.nodes, node.children)
             /\ node.parent /= 0
                   => /\ node.visits >= 1
                      /\ board.nodes[node.parent].visits >= 1

\* the simulations have built a tree three plies deep, and a grandchild of
\* the root, chosen by UCB1 more than once, has won a part of its visits
C38_Witness ==
    /\ board.simulations = TreeSimulations
    /\ \E n \in DOMAIN board.nodes :
          /\ board.nodes[n].parent > 1
          /\ Len(board.nodes[n].children) > 0
          /\ board.nodes[n].visits >= 2
          /\ board.nodes[n].wins > 0
          /\ board.nodes[n].wins < 2 * board.nodes[n].visits

(* C39: in the playouts of src/engines/mcts.py no move is put in the        *)
(* "tactical" list: get_move_priority is at most 56 for any move and at     *)
(* most 22 for a move that neither takes a piece nor gives check, so such   *)
(* a move, when the playout makes it, comes from the list of normal moves.  *)
C39_TacticalNeverPopulated ==
    last.op = "select_simulation_move"
       => /\ \A i \in DOMAIN last.categorized :
                LET m == last.categorized[i]
                IN /\ m.priority <= 56
                   /\ (~m.capture /\ ~m.check) => m.priority <= 22
                   /\ m.category /= "tactical"
          /\ LET made == last.categorized[last.chosen]
             IN (~made.capture /\ ~made.check) => made.category = "normal"

\* the playout makes a promotion that takes nothing and gives no check, of
\* priority 20, in a position where another promotion takes a piece
C39_Witness ==
    /\ last.op = "select_simulation_move"
    /\ LET made == last.categorized[last.chosen]
       IN /\ Len(made.move) > 4
          /\ made.priority = 20
          /\ made.category = "normal"
    /\ \E i \in DOMAIN last.categorized : last.categorized[i].priority >= 35

====
